---------------------------- MODULE Spec2Model ----------------------------
(***************************************************************************)
(* Repair-shop dashboard (src/app/page.jsx): the booking / repair status  *)
(* workflow of BookingSystem, the repair-to-invoice generator of          *)
(* RepairFormModal, the manual invoice form of InvoiceManager, the         *)
(* quotation form of QuotationTemplates, and the session itself: sign-in   *)
(* by AuthLoader, the profile bootstrap, the subscription gate and the     *)
(* module switch of Dashboard.                                             *)
(* The writes of a second session of the same tenant, to the bookings and  *)
(* to the profile document, are interleaved with this session's where two  *)
(* sessions matter.                                                        *)
(*                                                                         *)
(* Monetary amounts are integers in cents.  Every input amount is a whole  *)
(* number of currency units, so a percentage of it is a whole number of    *)
(* cents and x * (rate / 100) is computed exactly; the rounding of IEEE    *)
(* doubles is not modelled.                                                *)
(***************************************************************************)
EXTENDS Integers, Sequences, FiniteSets, TLC

(***************************************************************************)
(* Bounds of the model.                                                    *)
(***************************************************************************)
MaxBookings == 1    \* documents the bookings collection can hold
MaxClock == 4       \* the session ends before the clock (new Date()) reads this
MaxParts == 2       \* part lines of a repair-details record
MaxItems == 2       \* line items handed to calculateTotals
MaxList == 3        \* bookings of a list handed to groupedBookings
MaxInvoices == 1    \* invoices the manual invoice form saves in a session
MaxQuotes == 1      \* quotations the quotation form saves in a session
MaxIdLen == 2       \* characters of a tenant identifier
MaxPending == 1     \* profile saves that await the store at a time

(***************************************************************************)
(* Values.                                                                 *)
(***************************************************************************)
\* an amount of whole currency units, in cents
Rand(n) == n * 100

statusOrder ==
  << "New Request", "Confirmed", "In Progress", "Awaiting Parts", "Testing",
     "Ready for Collection", "Collected", "Unable To Repair" >>

Statuses == { statusOrder[i] : i \in 1..Len(statusOrder) }

\* the columns of the kanban board: the only place a booking card is shown
BoardStatuses == Statuses \ {"Collected", "Unable To Repair"}

\* the options of the "Update Repair Status" tool
ToolStatuses == Statuses \ {"New Request"}

\* JavaScript undefined, as the value of a missing string field
Undefined == "undefined"

\* the id of a booking object that has no id field
UndefinedId == 0

RangeOf(s) == { s[i] : i \in 1..Len(s) }

RECURSIVE SumSeq(_)
SumSeq(s) == IF s = << >> THEN 0 ELSE Head(s) + SumSeq(Tail(s))

(***************************************************************************)
(* sendStatusNotification: the message names the customer, the invoice     *)
(* number and the status; the toast is appended to the document body.      *)
(***************************************************************************)
sendStatusNotification(customerPhone, customerName, invoiceNo, status) ==
  [to |-> customerPhone, customerName |-> customerName,
   invoiceNo |-> invoiceNo, status |-> status]

NoNotification == sendStatusNotification("", "", "", "")

\* the red and green boxes the handlers append to the document body, and
\* the message line of SettingsManager and of SubscriptionGate
ErrorBox(text) == [kind |-> "error", text |-> text]
SuccessBox(text) == [kind |-> "success", text |-> text]
NoBox == [kind |-> "none", text |-> ""]

(***************************************************************************)
(* InvoiceManager.calculateTotals                                          *)
(***************************************************************************)
RECURSIVE ReduceItems(_)
ReduceItems(items) ==
  IF items = << >> THEN 0
  ELSE ReduceItems(SubSeq(items, 1, Len(items) - 1))
       + items[Len(items)].qty * items[Len(items)].unitPrice

\* calculateTotals without the exemption
calculateTotalsAlwaysTaxed(currentItems, isVatExempt, taxRate) ==
  LET newSubtotal == ReduceItems(currentItems)
      calculatedTax == (newSubtotal * taxRate) \div 100
      newTotal == newSubtotal + calculatedTax
  IN [items |-> currentItems, subtotal |-> newSubtotal,
      taxAmount |-> calculatedTax, totalAmount |-> newTotal,
      isVatExempt |-> isVatExempt]

calculateTotals(currentItems, isVatExempt, taxRate) ==
  LET newSubtotal == ReduceItems(currentItems)
      calculatedTax == IF isVatExempt THEN 0 ELSE (newSubtotal * taxRate) \div 100
      newTotal == newSubtotal + calculatedTax
  IN [items |-> currentItems, subtotal |-> newSubtotal,
      taxAmount |-> calculatedTax, totalAmount |-> newTotal,
      isVatExempt |-> isVatExempt]

(***************************************************************************)
(* BookingSystem.groupedBookings: one bucket per status of statusOrder,    *)
(* each booking pushed to the bucket of its status if there is one, and    *)
(* the 'Total Repairs' count.                                              *)
(***************************************************************************)
EmptyGroups == [s \in Statuses |-> << >>]

RECURSIVE PushEach(_, _)
PushEach(groups, list) ==
  IF list = << >> THEN groups
  ELSE LET booking == Head(list)
       IN PushEach(IF booking.status \in DOMAIN groups
                   THEN [groups EXCEPT ![booking.status] = Append(@, booking)]
                   ELSE groups,
                   Tail(list))

\* groupedBookings whose buckets beyond the board are left empty
groupedBookingsBoardOnly(list) ==
  [groups |-> PushEach(EmptyGroups,
                SelectSeq(list, LAMBDA b : b.status \in BoardStatuses)),
   totalRepairs |-> Len(list)]

groupedBookings(list) ==
  [groups |-> PushEach(EmptyGroups, list), totalRepairs |-> Len(list)]

(***************************************************************************)
(* RepairFormModal: initial repair data and the invoice built from it.     *)
(***************************************************************************)
\* what check-in and online request store as repairDetails: the object {}
EmptyDetails == [kind |-> "empty"]

\* the repairDetails of an object that has no such field
UndefinedDetails == [kind |-> "undefined"]

\* the repair data of a form that is not mounted
NoRepairData == [kind |-> "none"]

DefaultLaborCost == Rand(350)

DefaultRepairData(status) ==
  [kind |-> "full", finalFault |-> "",
   partsUsed |-> << [name |-> "", cost |-> 0] >>,
   finalStatus |-> status, laborCost |-> DefaultLaborCost]

\* useState(booking.repairDetails || {defaults}): only a missing
\* repairDetails is falsy; the stored {} is an object and is kept as it is
InitialRepairData(booking) ==
  IF booking.repairDetails = UndefinedDetails
  THEN DefaultRepairData(booking.status)
  ELSE booking.repairDetails

\* the render of the form evaluates repairData.partsUsed.reduce(...), which
\* throws a TypeError when repairData has no partsUsed
RenderThrows(repairData) == repairData = EmptyDetails

\* the parts filter without its test of the name
RECURSIVE PartsCostItemsAnyName(_)
PartsCostItemsAnyName(parts) ==
  IF parts = << >> THEN << >>
  ELSE LET p == Head(parts)
       IN (IF p.cost > 0
           THEN << [description |-> << "Part", p.name >>, qty |-> 1,
                    unitPrice |-> p.cost, total |-> p.cost] >>
           ELSE << >>) \o PartsCostItemsAnyName(Tail(parts))

RECURSIVE PartsCostItems(_)
PartsCostItems(parts) ==
  IF parts = << >> THEN << >>
  ELSE LET p == Head(parts)
       IN (IF p.cost > 0 /\ p.name # ""
           THEN << [description |-> << "Part", p.name >>, qty |-> 1,
                    unitPrice |-> p.cost, total |-> p.cost] >>
           ELSE << >>) \o PartsCostItems(Tail(parts))

LaborItem(repairData, booking) ==
  [description |-> << "Labor", IF repairData.finalFault # ""
                                THEN repairData.finalFault
                                ELSE booking.deviceIssue >>,
   qty |-> 1, unitPrice |-> repairData.laborCost,
   total |-> repairData.laborCost]

GeneratedTaxRate == 15

\* the invoice taxed at the rate of the tenant profile, where it has one
NewInvoiceProfileRate(repairData, booking, profile) ==
  LET invoiceItems == << LaborItem(repairData, booking) >>
                        \o PartsCostItems(repairData.partsUsed)
      subtotal == SumSeq([i \in 1..Len(invoiceItems) |-> invoiceItems[i].total])
      taxRate == IF "taxRate" \in DOMAIN profile THEN profile.taxRate
                 ELSE GeneratedTaxRate
      taxAmount == (subtotal * taxRate) \div 100
      totalAmount == subtotal + taxAmount
  IN [invoiceNo |-> << "INV-REP", booking.invoiceNo >>,
      items |-> invoiceItems, subtotal |-> subtotal, taxRate |-> taxRate,
      taxAmount |-> taxAmount, isVatExempt |-> FALSE,
      totalAmount |-> totalAmount, status |-> "Sent",
      relatedBookingId |-> booking.id, currency |-> profile.currency]

NewInvoice(repairData, booking, profile) ==
  LET invoiceItems == << LaborItem(repairData, booking) >>
                        \o PartsCostItems(repairData.partsUsed)
      subtotal == SumSeq([i \in 1..Len(invoiceItems) |-> invoiceItems[i].total])
      taxRate == GeneratedTaxRate
      taxAmount == (subtotal * taxRate) \div 100
      totalAmount == subtotal + taxAmount
  IN [invoiceNo |-> << "INV-REP", booking.invoiceNo >>,
      items |-> invoiceItems, subtotal |-> subtotal, taxRate |-> taxRate,
      taxAmount |-> taxAmount, isVatExempt |-> FALSE,
      totalAmount |-> totalAmount, status |-> "Sent",
      relatedBookingId |-> booking.id, currency |-> profile.currency]

\* the Generate button is disabled while the estimate is zero
TotalEstimatedCost(repairData) ==
  SumSeq([i \in 1..Len(repairData.partsUsed) |-> repairData.partsUsed[i].cost])
  + repairData.laborCost


(***************************************************************************)
(* State.                                                                  *)
(***************************************************************************)
VARIABLES
  bookings,            \* store: the tenant's bookings collection, id -> document
  invoices,            \* store: the tenant's invoices collection, in creation order
  shopProfile,         \* Dashboard: the tenant profile handed to the modules
  bookingsList,        \* BookingSystem: bookings, the in-memory list
  currentBooking,      \* BookingSystem: << >> for null, else << booking >>
  isFormOpen,          \* BookingSystem: a check-in / online form is shown
  isWalkIn,            \* BookingSystem: which of the two forms
  slipVisible,         \* WalkInCheckInForm: the book-in slip is shown
  repairData,          \* RepairFormModal: the repair data being edited
  isSaving,            \* RepairFormModal
  isGeneratingInvoice, \* RepairFormModal
  writeQueue,          \* writes awaiting the store's answer, in issue order
  lastNotification,    \* sendStatusNotification: the message the last step dispatched
  lastWrite,           \* the answer the store gave in the last step
  crashed,             \* a render threw: the component tree is unmounted
  now,                 \* the clock read by new Date()
  calc,                \* input and result of the pure calculators
  lastMessage,         \* the message box or message line the last step showed
  auth,                \* AuthLoader: position of the sign-in process
  appServices,         \* AuthLoader: << >> for null, else << services >>
  profileDoc,          \* store: << >> while absent, else << profile document >>
  loadingProfile,      \* Dashboard
  authError,           \* Dashboard
  bootstrap,           \* Dashboard: position of initializeProfile
  activeModule,        \* Dashboard
  isProcessing,        \* SubscriptionGate
  subError,            \* SubscriptionGate
  settingsProfile,     \* SettingsManager: profile, the profile being edited
  profileIsSaving,     \* SettingsManager: isSaving
  invoice,             \* InvoiceManager: the invoice being edited
  invoiceTab,          \* InvoiceManager: tab
  quote,               \* QuotationTemplates: the quote being edited
  quotationVisible,    \* QuotationTemplates
  quoteIsSaving,       \* QuotationTemplates: isSaving
  quoteTab,            \* QuotationTemplates: tab
  quotations,          \* store: the tenant's quotations collection, in creation order
  peerBootstrap        \* another session of the tenant: position of its initializeProfile

storeVars == << bookings, invoices >>
systemVars == << bookingsList, currentBooking, isFormOpen, isWalkIn >>
formVars == << slipVisible >>
modalVars == << repairData, isSaving, isGeneratingInvoice >>
authVars == << auth, appServices >>
dashboardVars == << profileDoc, loadingProfile, authError, bootstrap, activeModule >>
gateVars == << isProcessing, subError >>
settingsVars == << settingsProfile, profileIsSaving >>
invoiceVars == << invoice, invoiceTab >>
quoteVars == << quote, quotationVisible, quoteIsSaving, quoteTab, quotations >>
peerVars == << peerBootstrap >>
moduleVars == << authVars, dashboardVars, gateVars, settingsVars, invoiceVars, quoteVars,
                peerVars >>
vars == << bookings, invoices, shopProfile, bookingsList, currentBooking,
           isFormOpen, isWalkIn, slipVisible, repairData, isSaving,
           isGeneratingInvoice, writeQueue, lastNotification, lastWrite, crashed, now, calc,
           lastMessage, moduleVars >>

BookingIds == 1..MaxBookings

\* the values typed into the forms
CustomerNames == {"", "Thandi"}
CustomerPhones == {"", "0825551234"}
DeviceModels == {"", "Galaxy S21"}
WalkInInvoiceNos == {"INV-1"}
OnlineInvoiceNos == {"REQ-1"}
ToolInvoiceNos == {"", "INV-1", "REQ-1"}

InitialFormData == [customerName |-> "", customerPhone |-> "", deviceModel |-> ""]
InitialUpdateStatusData == [invoiceNo |-> "", status |-> "Confirmed"]

\* a default profile that starts behind the gate
InitialProfileGated == [currency |-> "ZAR", subscription_status |-> "inactive"]

\* the profile initializeProfile creates
InitialProfile == [currency |-> "ZAR", subscription_status |-> "active"]

\* tenant profile documents; taxRate is a field the code never reads
Profiles ==
  { InitialProfile,
    [currency |-> "USD", taxRate |-> 0, subscription_status |-> "active"],
    [currency |-> "EUR", taxRate |-> 20, subscription_status |-> "active"] }

\* a booking document as handleUpdateRepair leaves it
SavedBooking(status, finalStatus) ==
  [status |-> status, bookingType |-> "Walk-in", invoiceNo |-> "INV-1",
   customerName |-> "Thandi", customerPhone |-> "0825551234",
   deviceModel |-> "Galaxy S21", deviceIssue |-> "cracked screen",
   repairDetails |-> DefaultRepairData(finalStatus), createdAt |-> 0,
   updatedAt |-> 0]

\* the bookings collection found when the session starts: empty, or one
\* booking saved through the repair form by an earlier session
SeededStores == { (1 :> SavedBooking("In Progress", "In Progress")) }

InitialStores == { << >> } \cup SeededStores

NoWrite ==
  [op |-> "none", caller |-> "none", accepted |-> FALSE, id |-> UndefinedId,
   status |-> Undefined, updatedAt |-> 0, was |-> Undefined]

\* the store gives no answer in the step
NoAnswer == lastWrite' = NoWrite

NoCalc == [fn |-> "none", args |-> << >>, result |-> << >>]

(***************************************************************************)
(* The session: AuthLoader, Dashboard and the modules other than           *)
(* BookingSystem.                                                          *)
(***************************************************************************)
\* the JavaScript null of userId, authError and subError
Null == "<null>"

TenantIds == {"u1"}

\* the shopProfile state of Dashboard before a profile is loaded
NullProfile == [null |-> TRUE]

\* profile documents written by other means than this session: one with a
\* lapsed subscription and one without the subscription_status field
InactiveProfile == [currency |-> "ZAR", subscription_status |-> "inactive"]
StatuslessProfile == [currency |-> "ZAR"]

\* the profile document found when the session starts
StoredProfiles ==
  { << >>, << InitialProfile >>, << InactiveProfile >>, << StatuslessProfile >> }

Modules == {"bookings", "invoices", "quotations", "settings"}

\* shopProfile?.subscription_status || 'inactive'
profileStatus(p) ==
  IF p # NullProfile /\ "subscription_status" \in DOMAIN p /\ p.subscription_status # ""
  THEN p.subscription_status ELSE "inactive"

\* Dashboard.renderModule: what the main content area shows
renderModule(services, p, module) ==
  IF services[1].userId = Null \/ p = NullProfile THEN "Initializing"
  ELSE IF profileStatus(p) # "active" THEN "SubscriptionGate"
  ELSE module

\* the sidebar footer evaluates shopProfile?.subscription_status.toUpperCase(),
\* which throws a TypeError on a profile object without the field
DashboardThrows(loading, error, p) ==
  /\ ~loading /\ error = Null
  /\ p # NullProfile /\ "subscription_status" \notin DOMAIN p

\* what App renders
Rendered(isCrashed, services, loading, error, p, module) ==
  IF isCrashed THEN "nothing"
  ELSE IF services = << >> THEN "Loading Secure Dashboard"
  ELSE IF loading THEN "Loading Shop Profile"
  ELSE IF error # Null THEN "Error"
  ELSE renderModule(services, p, module)

Screen == Rendered(crashed, appServices, loadingProfile, authError, shopProfile,
                   activeModule)

\* SettingsManager: useState({ ..., currency: shopProfile?.currency || 'ZAR' })
InitialSettings(p) ==
  [currency |-> IF p # NullProfile /\ "currency" \in DOMAIN p THEN p.currency
                ELSE "ZAR"]

\* the form state of a SettingsManager that is not mounted
NoSettings == [currency |-> Null]

\* InvoiceManager: useState({ ... })
InitialInvoice ==
  [invoiceNo |-> "INV-7", customerName |-> "",
   items |-> << [description |-> "", qty |-> 1, unitPrice |-> 0, total |-> 0] >>,
   subtotal |-> 0, taxRate |-> 15, taxAmount |-> 0, isVatExempt |-> FALSE,
   totalAmount |-> 0, status |-> "Draft"]

\* QuotationTemplates: useState({ ... })
InitialQuote ==
  [deviceModel |-> "", customerName |-> "", faultDescription |-> "",
   repairCostEstimate |-> Rand(1200), isBER |-> FALSE]

\* a session in which sign-in and the profile bootstrap are over and the
\* module named is shown
SignedIn(module) ==
  /\ auth = "done"
  /\ appServices = << [userId |-> "u1"] >>
  /\ profileDoc = << shopProfile >>
  /\ loadingProfile = FALSE
  /\ authError = Null
  /\ bootstrap = "loaded"
  /\ activeModule = module
  /\ isProcessing = FALSE
  /\ subError = Null
  /\ settingsProfile = IF module = "settings" THEN InitialSettings(shopProfile)
                       ELSE NoSettings
  /\ profileIsSaving = FALSE
  /\ invoice = InitialInvoice
  /\ invoiceTab = "create"
  /\ quote = InitialQuote
  /\ quotationVisible = FALSE
  /\ quoteIsSaving = FALSE
  /\ quoteTab = "create"
  /\ quotations = << >>
  /\ peerBootstrap = "idle"
  /\ lastMessage = NoBox

\* a session that has just been constructed over one of the stores, with
\* one of the profiles loaded
SessionInit(stores, profiles) ==
  /\ bookings \in stores
  /\ invoices = << >>
  /\ shopProfile \in profiles
  /\ bookingsList = << >>
  /\ currentBooking = << >>
  /\ isFormOpen = FALSE
  /\ isWalkIn = FALSE
  /\ slipVisible = FALSE
  /\ repairData = NoRepairData
  /\ isSaving = FALSE
  /\ isGeneratingInvoice = FALSE
  /\ writeQueue = << >>
  /\ lastNotification = NoNotification
  /\ lastWrite = NoWrite
  /\ crashed = FALSE
  /\ now = 1

Init ==
  /\ SessionInit(InitialStores, {InitialProfile})
  /\ SignedIn("bookings")
  /\ calc = NoCalc

(***************************************************************************)
(* Rendering.  WalkInCheckInForm, OnlineBookingForm and RepairFormModal    *)
(* are declared inside the body of BookingSystem, so every render of       *)
(* BookingSystem makes new component types: React unmounts the inner       *)
(* components and mounts new ones with their initial state.  A handler of  *)
(* an unmounted instance that is still awaiting the store keeps running,   *)
(* but its setState calls on the instance are dropped.                     *)
(***************************************************************************)
Unmounted(q) == [i \in 1..Len(q) |-> [q[i] EXCEPT !.mounted = FALSE]]

\* the state of the inner components after BookingSystem rendered with the
\* current booking cb; a throwing render unmounts the whole tree
Rerender(cb) ==
  /\ slipVisible' = FALSE
  /\ isSaving' = FALSE
  /\ isGeneratingInvoice' = FALSE
  /\ repairData' = IF cb = << >> THEN NoRepairData ELSE InitialRepairData(cb[1])
  /\ crashed' = (cb # << >> /\ RenderThrows(InitialRepairData(cb[1])))

\* sendStatusNotification is called with the message msg
Dispatch(msg) == lastNotification' = msg

\* the step calls sendStatusNotification not at all
NoDispatch == lastNotification' = NoNotification

\* the step shows the message msg
Show(msg) == lastMessage' = msg

\* the step shows no message
NoMessage == lastMessage' = NoBox

\* the booking object setCurrentBooking(prev => ({...prev, status})) makes
\* of a null prev
StatusOnlyBooking(status) ==
  [id |-> UndefinedId, status |-> status, bookingType |-> Undefined,
   invoiceNo |-> Undefined, customerName |-> Undefined,
   customerPhone |-> Undefined, deviceModel |-> Undefined,
   deviceIssue |-> Undefined, repairDetails |-> UndefinedDetails]

\* { id: doc.id, ...doc.data() }; the timestamps, which the session
\* never reads, are left out
ListEntry(id) ==
  [id |-> id, status |-> bookings[id].status,
   bookingType |-> bookings[id].bookingType,
   invoiceNo |-> bookings[id].invoiceNo,
   customerName |-> bookings[id].customerName,
   customerPhone |-> bookings[id].customerPhone,
   deviceModel |-> bookings[id].deviceModel,
   deviceIssue |-> bookings[id].deviceIssue,
   repairDetails |-> bookings[id].repairDetails]

\* a snapshot of the bookings shown on the board only
RECURSIVE SnapshotFromBoard(_)
SnapshotFromBoard(id) ==
  IF id > MaxBookings THEN << >>
  ELSE (IF id \in DOMAIN bookings /\ bookings[id].status \in BoardStatuses
        THEN << ListEntry(id) >> ELSE << >>)
       \o SnapshotFromBoard(id + 1)

\* the snapshot of the collection query: every document, ordered by id
RECURSIVE SnapshotFrom(_)
SnapshotFrom(id) ==
  IF id > MaxBookings THEN << >>
  ELSE (IF id \in DOMAIN bookings THEN << ListEntry(id) >> ELSE << >>)
       \o SnapshotFrom(id + 1)

\* readings of the clock still to be taken by the handlers that await the
\* store: the updatedAt of the status write that follows their write
TicksOwed(q) ==
  Cardinality({ i \in 1..Len(q) : q[i].op \in {"updateRepair", "addInvoice"} })

PendingAdds(q) == Cardinality({ i \in 1..Len(q) : q[i].op = "addBooking" })

CurrentId == IF currentBooking = << >> THEN -1 ELSE currentBooking[1].id

(***************************************************************************)
(* BookingSystem: the bookings listener and the two booking forms.         *)
(* The forms and the repair form are full-screen overlays (fixed inset-0,  *)
(* z-50): while one is shown the page under it cannot be clicked, and the  *)
(* repair form, rendered last, lies over a booking form.                   *)
(***************************************************************************)
PageShown == ~crashed /\ ~isFormOpen /\ currentBooking = << >>
BookingFormShown == ~crashed /\ isFormOpen /\ currentBooking = << >>
FormShown == ~crashed /\ currentBooking # << >> /\ repairData.kind = "full"

\* onSnapshot callback: setBookings(bookingsList)
DeliverSnapshot ==
  /\ ~crashed
  /\ bookingsList # SnapshotFrom(1)
  /\ bookingsList' = SnapshotFrom(1)
  /\ Rerender(currentBooking)
  /\ writeQueue' = Unmounted(writeQueue)
  /\ NoDispatch
  /\ NoAnswer
  /\ NoMessage
  /\ UNCHANGED << storeVars, shopProfile, currentBooking, isFormOpen, isWalkIn,
                  now, calc, moduleVars >>

\* "New Walk-in Check-in" / "Book a Repair (Online)"
OpenForm(walkIn) ==
  /\ PageShown
  /\ isFormOpen' = TRUE
  /\ isWalkIn' = walkIn
  /\ Rerender(currentBooking)
  /\ writeQueue' = Unmounted(writeQueue)
  /\ NoDispatch
  /\ NoAnswer
  /\ NoMessage
  /\ UNCHANGED << storeVars, shopProfile, bookingsList, currentBooking, now,
                  calc, moduleVars >>

\* Cancel
CloseForm ==
  /\ BookingFormShown
  /\ ~slipVisible
  /\ isFormOpen' = FALSE
  /\ Rerender(currentBooking)
  /\ writeQueue' = Unmounted(writeQueue)
  /\ NoDispatch
  /\ NoAnswer
  /\ NoMessage
  /\ UNCHANGED << storeVars, shopProfile, bookingsList, currentBooking,
                  isWalkIn, now, calc, moduleVars >>

\* handleChange of either form
handleChange(fd, name, value) == [fd EXCEPT ![name] = value]

\* what the fields can hold when the button is clicked
FormInputs ==
  { handleChange(handleChange(handleChange(InitialFormData,
        "customerName", n), "customerPhone", ph), "deviceModel", m) :
      n \in CustomerNames, ph \in CustomerPhones, m \in DeviceModels }

\* a check of the customer name alone
MissingRequiredNameOnly(fd) == fd.customerName = ""

\* !formData.customerName || !formData.customerPhone || !formData.deviceModel
MissingRequired(fd) ==
  fd.customerName = "" \/ fd.customerPhone = "" \/ fd.deviceModel = ""

\* a booking that starts as a request whatever its origin
NewBookingAsRequest(fd, invoiceNo, status, bookingType, time) ==
  [status |-> "New Request", bookingType |-> bookingType,
   invoiceNo |-> invoiceNo, customerName |-> fd.customerName,
   customerPhone |-> fd.customerPhone, deviceModel |-> fd.deviceModel,
   deviceIssue |-> "cracked screen", repairDetails |-> EmptyDetails,
   createdAt |-> time, updatedAt |-> 0]

NewBooking(fd, invoiceNo, status, bookingType, time) ==
  [status |-> status, bookingType |-> bookingType, invoiceNo |-> invoiceNo,
   customerName |-> fd.customerName, customerPhone |-> fd.customerPhone,
   deviceModel |-> fd.deviceModel, deviceIssue |-> "cracked screen",
   repairDetails |-> EmptyDetails, createdAt |-> time, updatedAt |-> 0]

\* the fields of a booking the awaiting handlers read after their await
Customer(b) ==
  [customerPhone |-> b.customerPhone, customerName |-> b.customerName,
   invoiceNo |-> b.invoiceNo]

\* a write handed to the store, with what the awaiting handler closed over
AddBookingWrite(caller, doc) ==
  [op |-> "addBooking", caller |-> caller, id |-> UndefinedId,
   status |-> doc.status, updatedAt |-> 0, data |-> doc,
   booking |-> Customer(doc),
   closureCurrentId |-> -1, mounted |-> TRUE]

UpdateStatusWrite(caller, id, newStatus, time, booking, closureId, mounted) ==
  [op |-> "updateStatus", caller |-> caller, id |-> id,
   status |-> newStatus, updatedAt |-> time, data |-> NoRepairData,
   booking |-> booking, closureCurrentId |-> closureId, mounted |-> mounted]

UpdateRepairWrite(booking, data, time) ==
  [op |-> "updateRepair", caller |-> "repair", id |-> booking.id,
   status |-> data.finalStatus, updatedAt |-> time, data |-> data,
   booking |-> Customer(booking), closureCurrentId |-> booking.id,
   mounted |-> TRUE]

AddInvoiceWrite(booking, newInvoice) ==
  [op |-> "addInvoice", caller |-> "generate", id |-> booking.id,
   status |-> "Collected", updatedAt |-> 0, data |-> newInvoice,
   booking |-> Customer(booking), closureCurrentId |-> booking.id,
   mounted |-> TRUE]

\* the collection has room for the document of one more addDoc
RoomForBooking ==
  Cardinality(DOMAIN bookings) + PendingAdds(writeQueue) < MaxBookings

\* the clock can be read once more, and `more` times after that by the
\* handler that reads it again after its await
CanStamp(more) == now + TicksOwed(writeQueue) + more < MaxClock

\* WalkInCheckInForm.handleCheckIn, up to its await, with the fields as
\* typed since the form was mounted; a missing field ends it with a message
handleCheckIn(fd, invoiceNo) ==
  /\ BookingFormShown /\ isWalkIn /\ ~slipVisible
  /\ IF MissingRequired(fd)
     THEN UNCHANGED writeQueue
     ELSE /\ RoomForBooking /\ CanStamp(0)
          /\ writeQueue' = Append(writeQueue,
               AddBookingWrite("checkIn",
                 NewBooking(fd, invoiceNo, "Confirmed", "Walk-in", now)))
  /\ now' = IF MissingRequired(fd) THEN now ELSE now + 1
  /\ NoDispatch
  /\ NoAnswer
  /\ IF MissingRequired(fd)
     THEN Show(ErrorBox("Please fill in required customer name, phone, and device model."))
     ELSE NoMessage
  /\ UNCHANGED << storeVars, shopProfile, systemVars, formVars, modalVars,
                  crashed, calc, moduleVars >>

\* WalkInCheckInForm.handlePrintAndNotify
handlePrintAndNotify ==
  /\ BookingFormShown /\ isWalkIn /\ slipVisible
  /\ isFormOpen' = FALSE
  /\ Rerender(currentBooking)
  /\ writeQueue' = Unmounted(writeQueue)
  /\ NoDispatch
  /\ NoAnswer
  /\ NoMessage
  /\ UNCHANGED << storeVars, shopProfile, bookingsList, currentBooking,
                  isWalkIn, now, calc, moduleVars >>

\* OnlineBookingForm.handleBooking, up to its await, with the fields as
\* typed since the form was mounted; a missing field ends it with a message
handleBooking(fd, invoiceNo) ==
  /\ BookingFormShown /\ ~isWalkIn
  /\ IF MissingRequired(fd)
     THEN UNCHANGED writeQueue
     ELSE /\ RoomForBooking /\ CanStamp(0)
          /\ writeQueue' = Append(writeQueue,
               AddBookingWrite("online",
                 NewBooking(fd, invoiceNo, "New Request", "Online", now)))
  /\ now' = IF MissingRequired(fd) THEN now ELSE now + 1
  /\ NoDispatch
  /\ NoAnswer
  /\ IF MissingRequired(fd)
     THEN Show(ErrorBox("Please fill in required customer name, phone, and device model."))
     ELSE NoMessage
  /\ UNCHANGED << storeVars, shopProfile, systemVars, formVars, modalVars,
                  crashed, calc, moduleVars >>

(***************************************************************************)
(* BookingSystem: the update-status tool and the repair form.              *)
(***************************************************************************)
\* bookings.find(b => b.invoiceNo === invoiceNo): index of the first match, 0 if none
FindByInvoiceNo(list, invoiceNo) ==
  LET hits == { i \in 1..Len(list) : list[i].invoiceNo = invoiceNo }
  IN IF hits = {} THEN 0 ELSE CHOOSE i \in hits : \A j \in hits : i <= j

\* handleUpdateStatusTool, up to the await inside updateBookingStatus, with
\* the invoice number and status entered in the tool; entering them sets
\* updateStatusData, which renders BookingSystem
handleUpdateStatusTool(invoiceNo, status) ==
  /\ PageShown
  /\ LET typed == [invoiceNo |-> invoiceNo, status |-> status]
         found == FindByInvoiceNo(bookingsList, invoiceNo)
         q == IF typed # InitialUpdateStatusData THEN Unmounted(writeQueue)
              ELSE writeQueue
     IN /\ IF typed # InitialUpdateStatusData
           THEN Rerender(currentBooking)
           ELSE UNCHANGED << formVars, modalVars, crashed >>
        /\ IF invoiceNo = "" \/ found = 0
           THEN /\ writeQueue' = q
                /\ UNCHANGED now
           ELSE /\ CanStamp(0)
                /\ writeQueue' = Append(q,
                     UpdateStatusWrite("tool", bookingsList[found].id, status,
                       now, Customer(bookingsList[found]), CurrentId, TRUE))
                /\ now' = now + 1
  /\ NoDispatch
  /\ NoAnswer
  /\ IF invoiceNo = ""
     THEN Show(ErrorBox("Please enter an Invoice Number."))
     ELSE IF FindByInvoiceNo(bookingsList, invoiceNo) = 0
          THEN Show(ErrorBox("No repair found with Invoice Number"))
          ELSE NoMessage
  /\ UNCHANGED << storeVars, shopProfile, systemVars, calc, moduleVars >>

\* BookingCard onClick: openRepairForm(booking)
openRepairForm(i) ==
  /\ PageShown
  /\ i \in 1..Len(bookingsList)
  /\ bookingsList[i].status \in BoardStatuses
  /\ currentBooking' = << bookingsList[i] >>
  /\ Rerender(currentBooking')
  /\ writeQueue' = Unmounted(writeQueue)
  /\ NoDispatch
  /\ NoAnswer
  /\ NoMessage
  /\ UNCHANGED << storeVars, shopProfile, bookingsList, isFormOpen, isWalkIn,
                  now, calc, moduleVars >>

LaborCosts == {0, Rand(350)}
FinalFaults == {"", "charging port"}
PartNames == {"", "LCD"}
PartCosts == {Rand(-50), 0, Rand(100)}

\* the inputs of the repair form other than the parts
setRepairData(field, value) ==
  /\ FormShown
  /\ repairData[field] # value
  /\ repairData' = [repairData EXCEPT ![field] = value]
  /\ NoDispatch
  /\ NoAnswer
  /\ NoMessage
  /\ UNCHANGED << storeVars, shopProfile, systemVars, formVars, isSaving,
                  isGeneratingInvoice, writeQueue, crashed, now, calc, moduleVars >>

handlePartChange(i, field, value) ==
  /\ FormShown
  /\ i \in 1..Len(repairData.partsUsed)
  /\ repairData.partsUsed[i][field] # value
  /\ repairData' = [repairData EXCEPT !.partsUsed[i][field] = value]
  /\ NoDispatch
  /\ NoAnswer
  /\ NoMessage
  /\ UNCHANGED << storeVars, shopProfile, systemVars, formVars, isSaving,
                  isGeneratingInvoice, writeQueue, crashed, now, calc, moduleVars >>

handleAddPart ==
  /\ FormShown
  /\ Len(repairData.partsUsed) < MaxParts
  /\ repairData' = [repairData EXCEPT
                      !.partsUsed = Append(@, [name |-> "", cost |-> 0])]
  /\ NoDispatch
  /\ NoAnswer
  /\ NoMessage
  /\ UNCHANGED << storeVars, shopProfile, systemVars, formVars, isSaving,
                  isGeneratingInvoice, writeQueue, crashed, now, calc, moduleVars >>

handleRemovePart(i) ==
  /\ FormShown
  /\ i \in 1..Len(repairData.partsUsed)
  /\ repairData' = [repairData EXCEPT
       !.partsUsed = SubSeq(@, 1, i - 1) \o SubSeq(@, i + 1, Len(@))]
  /\ NoDispatch
  /\ NoAnswer
  /\ NoMessage
  /\ UNCHANGED << storeVars, shopProfile, systemVars, formVars, isSaving,
                  isGeneratingInvoice, writeQueue, crashed, now, calc, moduleVars >>

\* handleUpdateRepair, up to its await; doc() throws on a missing id and
\* the handler ends with an error message
handleUpdateRepair ==
  /\ FormShown
  /\ ~isSaving
  /\ IF currentBooking[1].id = UndefinedId
     THEN UNCHANGED << writeQueue, now, isSaving >>
     ELSE /\ CanStamp(1)
          /\ writeQueue' = Append(writeQueue,
               UpdateRepairWrite(currentBooking[1], repairData, now))
          /\ now' = now + 1
          /\ isSaving' = TRUE
  /\ NoDispatch
  /\ NoAnswer
  /\ IF currentBooking[1].id = UndefinedId
     THEN Show(ErrorBox("Failed to save repair details."))
     ELSE NoMessage
  /\ UNCHANGED << storeVars, shopProfile, systemVars, formVars, repairData,
                  isGeneratingInvoice, crashed, calc, moduleVars >>

\* handleGenerateInvoice, up to its first await; addDoc throws on the
\* undefined fields of a booking without an invoice number and the handler
\* ends with an error message
handleGenerateInvoice ==
  /\ FormShown
  /\ ~isGeneratingInvoice
  /\ TotalEstimatedCost(repairData) # 0
  /\ IF currentBooking[1].id = UndefinedId
     THEN UNCHANGED << writeQueue, isGeneratingInvoice, now >>
     ELSE /\ CanStamp(1)
          /\ writeQueue' = Append(writeQueue,
               AddInvoiceWrite(currentBooking[1],
                 NewInvoice(repairData, currentBooking[1], shopProfile)))
          /\ isGeneratingInvoice' = TRUE
          /\ now' = now + 1
  /\ NoDispatch
  /\ NoAnswer
  /\ IF currentBooking[1].id = UndefinedId
     THEN Show(ErrorBox("Failed to generate invoice."))
     ELSE NoMessage
  /\ UNCHANGED << storeVars, shopProfile, systemVars, formVars, repairData,
                  isSaving, crashed, calc, moduleVars >>

\* handleNotifyCustomer
handleNotifyCustomer ==
  /\ FormShown
  /\ Dispatch(sendStatusNotification(currentBooking[1].customerPhone,
       currentBooking[1].customerName, currentBooking[1].invoiceNo,
       repairData.finalStatus))
  /\ NoAnswer
  /\ NoMessage
  /\ UNCHANGED << storeVars, shopProfile, systemVars, formVars, modalVars,
                  writeQueue, crashed, now, calc, moduleVars >>

(***************************************************************************)
(* The store answers the oldest write, and the handler that awaits it      *)
(* runs to its end or to its next await.  setState calls are dropped once  *)
(* the tree is unmounted; notifications are appended to the document body  *)
(* and are not.                                                            *)
(***************************************************************************)
\* BookingSystem state after a handler set currentBooking to cb
SetCurrent(cb, rerender, q) ==
  IF crashed
  THEN /\ UNCHANGED << currentBooking, formVars, modalVars, crashed >>
       /\ writeQueue' = q
  ELSE /\ currentBooking' = cb
       /\ IF rerender
          THEN Rerender(cb) /\ writeQueue' = Unmounted(q)
          ELSE UNCHANGED << formVars, modalVars, crashed >> /\ writeQueue' = q

\* what the store answered, and the status the document had before
Answer(w, accepted) ==
  [op |-> w.op, caller |-> w.caller, accepted |-> accepted, id |-> w.id,
   status |-> w.status, updatedAt |-> w.updatedAt,
   was |-> IF w.id \in DOMAIN bookings THEN bookings[w.id].status
           ELSE Undefined]

\* addDoc of handleCheckIn / handleBooking resolves or rejects
AnswerAddBooking(accepted) ==
  /\ writeQueue # << >>
  /\ LET w == Head(writeQueue)
         rest == Tail(writeQueue)
     IN /\ w.op = "addBooking"
        /\ IF accepted
           THEN /\ \E id \in BookingIds \ DOMAIN bookings :
                     /\ bookings' = bookings @@ (id :> w.data)
                     /\ lastWrite' = [Answer(w, accepted) EXCEPT !.id = id]
                /\ Dispatch(sendStatusNotification(w.data.customerPhone,
                     w.data.customerName, w.data.invoiceNo, w.data.status))
                /\ IF w.caller = "checkIn"
                   THEN NoMessage
                   ELSE Show(SuccessBox("Online booking request submitted successfully!"))
                /\ IF w.caller = "checkIn"
                   THEN /\ slipVisible' = IF w.mounted /\ ~crashed
                                          THEN TRUE ELSE slipVisible
                        /\ writeQueue' = rest
                        /\ UNCHANGED << isFormOpen, modalVars, crashed >>
                   ELSE IF ~crashed /\ isFormOpen
                        THEN /\ isFormOpen' = FALSE
                             /\ Rerender(currentBooking)
                             /\ writeQueue' = Unmounted(rest)
                        ELSE /\ writeQueue' = rest
                             /\ UNCHANGED << isFormOpen, formVars, modalVars,
                                             crashed >>
           ELSE /\ lastWrite' = Answer(w, accepted)
                /\ writeQueue' = rest
                /\ NoDispatch
                /\ IF w.caller = "checkIn"
                   THEN Show(ErrorBox("Failed to create check-in."))
                   ELSE Show(ErrorBox("Failed to submit booking."))
                /\ UNCHANGED << bookings, isFormOpen, formVars, modalVars,
                                crashed >>
  /\ UNCHANGED << invoices, shopProfile, bookingsList, currentBooking, isWalkIn,
                  now, calc, moduleVars >>

\* setCurrentBooking(prev => ({ ...prev, status: newStatus }))
WithStatus(cb, newStatus) ==
  IF cb = << >> THEN << StatusOnlyBooking(newStatus) >>
  ELSE << [cb[1] EXCEPT !.status = newStatus] >>

\* a status write the store applies only when it is newer than the document
StatusUpdateIfNewer(doc, newStatus, time) ==
  IF time > doc.updatedAt
  THEN [doc EXCEPT !.status = newStatus, !.updatedAt = time]
  ELSE doc

\* a status write that leaves a closed job as it is
StatusUpdateGuarded(doc, newStatus, time) ==
  IF doc.status \in {"Collected", "Unable To Repair"} THEN doc
  ELSE [doc EXCEPT !.status = newStatus, !.updatedAt = time]

\* the document after updateDoc(docRef, { status, updatedAt })
StatusUpdate(doc, newStatus, time) ==
  [doc EXCEPT !.status = newStatus, !.updatedAt = time]

\* updateDoc of updateBookingStatus resolves or rejects; a rejection is
\* caught inside updateBookingStatus and its caller goes on
updateBookingStatus(accepted) ==
  /\ writeQueue # << >>
  /\ LET w == Head(writeQueue)
         rest == Tail(writeQueue)
         hit == accepted /\ w.closureCurrentId = w.id
         cb1 == IF hit THEN WithStatus(currentBooking, w.status)
                ELSE currentBooking
     IN /\ w.op = "updateStatus"
        /\ lastWrite' = Answer(w, accepted)
        /\ bookings' = IF accepted
                       THEN [bookings EXCEPT
                               ![w.id] = StatusUpdate(@, w.status, w.updatedAt)]
                       ELSE bookings
        /\ CASE w.caller = "tool" ->
                  \* sendStatusNotification; setUpdateStatusData
                  /\ Dispatch(sendStatusNotification(w.booking.customerPhone,
                       w.booking.customerName, w.booking.invoiceNo, w.status))
                  /\ SetCurrent(cb1, TRUE, rest)
                  /\ NoMessage
             [] w.caller = "generate" ->
                  \* sendStatusNotification; onClose
                  /\ Dispatch(sendStatusNotification(w.booking.customerPhone,
                       w.booking.customerName, w.booking.invoiceNo,
                       "Collected (Invoice Sent)"))
                  /\ SetCurrent(<< >>, hit \/ currentBooking # << >>, rest)
                  /\ Show(SuccessBox("Invoice & Status Update Sent!"))
             [] OTHER ->
                  /\ SetCurrent(cb1, hit, rest)
                  /\ NoDispatch
                  /\ NoMessage
  /\ UNCHANGED << invoices, shopProfile, bookingsList, isFormOpen, isWalkIn,
                  now, calc, moduleVars >>

\* a repair save that takes the status from the wrong field
RepairUpdateWrongField(doc, data, time) ==
  [doc EXCEPT !.repairDetails = data, !.status = data.finalFault,
              !.updatedAt = time]

\* the document after updateDoc(docRef, { repairDetails, status, updatedAt })
RepairUpdate(doc, data, time) ==
  [doc EXCEPT !.repairDetails = data, !.status = data.finalStatus,
              !.updatedAt = time]

\* updateDoc of handleUpdateRepair resolves or rejects
AnswerUpdateRepair(accepted) ==
  /\ writeQueue # << >>
  /\ LET w == Head(writeQueue)
         rest == Tail(writeQueue)
     IN /\ w.op = "updateRepair"
        /\ lastWrite' = Answer(w, accepted)
        /\ IF accepted
           THEN /\ bookings' = [bookings EXCEPT
                                  ![w.id] = RepairUpdate(@, w.data, w.updatedAt)]
                \* onUpdate(newStatus), which is not awaited; then onClose()
                /\ SetCurrent(<< >>, currentBooking # << >>,
                     Append(rest,
                       UpdateStatusWrite("onUpdate", w.id, w.status, now,
                         w.booking, w.closureCurrentId, FALSE)))
                /\ now' = now + 1
           ELSE /\ isSaving' = IF w.mounted /\ ~crashed THEN FALSE ELSE isSaving
                /\ writeQueue' = rest
                /\ UNCHANGED << bookings, currentBooking, formVars, repairData,
                                isGeneratingInvoice, crashed, now >>
  /\ IF accepted THEN NoMessage
     ELSE Show(ErrorBox("Failed to save repair details."))
  /\ NoDispatch
  /\ UNCHANGED << invoices, shopProfile, bookingsList, isFormOpen, isWalkIn,
                  calc, moduleVars >>

\* the status write issued without awaiting the invoice write
AnswerAddInvoiceUnordered(accepted) ==
  /\ writeQueue # << >>
  /\ LET w == Head(writeQueue)
         rest == Tail(writeQueue)
     IN /\ w.op = "addInvoice"
        /\ lastWrite' = Answer(w, accepted)
        /\ invoices' = IF accepted THEN Append(invoices, w.data) ELSE invoices
        /\ writeQueue' = Append(rest,
             UpdateStatusWrite("generate", w.id, "Collected", now,
               w.booking, w.closureCurrentId, w.mounted))
        /\ now' = now + 1
        /\ UNCHANGED isGeneratingInvoice
  /\ IF accepted THEN NoMessage
     ELSE Show(ErrorBox("Failed to generate invoice."))
  /\ NoDispatch
  /\ UNCHANGED << bookings, shopProfile, systemVars, formVars, repairData,
                  isSaving, crashed, calc, moduleVars >>

\* addDoc of handleGenerateInvoice resolves or rejects
AnswerAddInvoice(accepted) ==
  /\ writeQueue # << >>
  /\ LET w == Head(writeQueue)
         rest == Tail(writeQueue)
     IN /\ w.op = "addInvoice"
        /\ lastWrite' = Answer(w, accepted)
        /\ IF accepted
           THEN /\ invoices' = Append(invoices, w.data)
                \* await updateBookingStatus(booking.id, 'Collected')
                /\ writeQueue' = Append(rest,
                     UpdateStatusWrite("generate", w.id, "Collected", now,
                       w.booking, w.closureCurrentId, w.mounted))
                /\ now' = now + 1
                /\ UNCHANGED isGeneratingInvoice
           ELSE /\ isGeneratingInvoice' = IF w.mounted /\ ~crashed
                                          THEN FALSE ELSE isGeneratingInvoice
                /\ writeQueue' = rest
                /\ UNCHANGED << invoices, now >>
  /\ IF accepted THEN NoMessage
     ELSE Show(ErrorBox("Failed to generate invoice."))
  /\ NoDispatch
  /\ UNCHANGED << bookings, shopProfile, systemVars, formVars, repairData,
                  isSaving, crashed, calc, moduleVars >>

(***************************************************************************)
(* The workflow of a session: bookings are created, moved between statuses *)
(* by the tool and by the repair form, and invoiced.  The tool and the     *)
(* status select are tried with the choices below.                         *)
(***************************************************************************)
ToolChoices == {"Confirmed", "Ready for Collection", "Collected"}
FormChoices == {"New Request", "Testing", "Collected"}

BookingFormNext ==
  \/ \E walkIn \in BOOLEAN : OpenForm(walkIn)
  \/ CloseForm
  \/ \E fd \in FormInputs, invoiceNo \in WalkInInvoiceNos : handleCheckIn(fd, invoiceNo)
  \/ handlePrintAndNotify
  \/ \E fd \in FormInputs, invoiceNo \in OnlineInvoiceNos : handleBooking(fd, invoiceNo)
  \/ \E accepted \in BOOLEAN : AnswerAddBooking(accepted)

StatusNext(toolStatuses, formStatuses) ==
  \/ DeliverSnapshot
  \/ \E invoiceNo \in ToolInvoiceNos, status \in toolStatuses :
       handleUpdateStatusTool(invoiceNo, status)
  \/ \E i \in BookingIds : openRepairForm(i)
  \/ \E value \in formStatuses : setRepairData("finalStatus", value)
  \/ handleUpdateRepair
  \/ \E accepted \in BOOLEAN : updateBookingStatus(accepted)
  \/ \E accepted \in BOOLEAN : AnswerUpdateRepair(accepted)

GenerateNext ==
  \/ handleGenerateInvoice
  \/ handleNotifyCustomer
  \/ \E accepted \in BOOLEAN : AnswerAddInvoice(accepted)

Next ==
  \/ BookingFormNext
  \/ StatusNext(ToolChoices, FormChoices)
  \/ GenerateNext

Spec == Init /\ [][Next]_vars

(***************************************************************************)
(* Status transitions alone, of a booking saved by an earlier session,     *)
(* with every option of the tool and of the status select.                 *)
(***************************************************************************)
TransitionsInit ==
  /\ SessionInit(SeededStores, {InitialProfile})
  /\ SignedIn("bookings")
  /\ calc = NoCalc

TransitionsNext == StatusNext(ToolStatuses, Statuses)

SpecTransitions == TransitionsInit /\ [][TransitionsNext]_vars

(***************************************************************************)
(* The repair form edited and invoiced, under each tenant profile, up to   *)
(* the store's answer to the invoice write.                                *)
(***************************************************************************)
FormInit ==
  /\ SessionInit(SeededStores, Profiles)
  /\ SignedIn("bookings")
  /\ calc = NoCalc

FormNext ==
  \/ DeliverSnapshot
  \/ \E i \in BookingIds : openRepairForm(i)
  \/ \E value \in LaborCosts : setRepairData("laborCost", value)
  \/ \E value \in FinalFaults : setRepairData("finalFault", value)
  \/ \E i \in 1..MaxParts, value \in PartNames : handlePartChange(i, "name", value)
  \/ \E i \in 1..MaxParts, value \in PartCosts : handlePartChange(i, "cost", value)
  \/ handleAddPart
  \/ \E i \in 1..MaxParts : handleRemovePart(i)
  \/ handleGenerateInvoice
  \/ \E accepted \in BOOLEAN : AnswerAddInvoice(accepted)

SpecForm == FormInit /\ [][FormNext]_vars

(***************************************************************************)
(* calculateTotals applied to line items, an exemption flag and a tax      *)
(* rate.  The quantity and price inputs of the invoice form hold           *)
(* parseFloat(value) || 0; whole quantities and whole currency units are   *)
(* drawn here.                                                             *)
(***************************************************************************)
sessionVars == << bookings, invoices, shopProfile, bookingsList, currentBooking,
                  isFormOpen, isWalkIn, slipVisible, repairData, isSaving,
                  isGeneratingInvoice, writeQueue, lastNotification, lastWrite,
                  crashed, now, lastMessage, moduleVars >>

Quantities == {0, 1, 2}
UnitPrices == {0, Rand(50), Rand(100)}
TaxRates == {0, 15, 20}

LineItems == [qty : Quantities, unitPrice : UnitPrices]

ItemLists == UNION { [1..n -> LineItems] : n \in 0..MaxItems }

TotalsInit ==
  /\ SessionInit({ << >> }, {InitialProfile})
  /\ SignedIn("invoices")
  /\ \E currentItems \in ItemLists, isVatExempt \in BOOLEAN, taxRate \in TaxRates :
       calc = [fn |-> "calculateTotals",
               args |-> [currentItems |-> currentItems,
                         isVatExempt |-> isVatExempt, taxRate |-> taxRate],
               result |-> << >>]

CallCalculateTotals ==
  /\ calc.fn = "calculateTotals"
  /\ calc.result = << >>
  /\ calc' = [calc EXCEPT !.result =
       << calculateTotals(calc.args.currentItems, calc.args.isVatExempt,
                          calc.args.taxRate) >>]
  /\ UNCHANGED sessionVars

TotalsNext == CallCalculateTotals

SpecTotals == TotalsInit /\ [][TotalsNext]_vars

(***************************************************************************)
(* groupedBookings applied to an in-memory list; the bookings of a list    *)
(* are told apart by their ids.                                            *)
(***************************************************************************)
BookingLists ==
  UNION { { [i \in 1..n |-> [id |-> i, status |-> f[i]]] :
              f \in [1..n -> Statuses] } : n \in 0..MaxList }

GroupsInit ==
  /\ SessionInit({ << >> }, {InitialProfile})
  /\ SignedIn("bookings")
  /\ \E list \in BookingLists :
       calc = [fn |-> "groupedBookings", args |-> list, result |-> << >>]

CallGroupedBookings ==
  /\ calc.fn = "groupedBookings"
  /\ calc.result = << >>
  /\ calc' = [calc EXCEPT !.result = << groupedBookings(calc.args) >>]
  /\ UNCHANGED sessionVars

GroupsNext == CallGroupedBookings

SpecGroups == GroupsInit /\ [][GroupsNext]_vars

(***************************************************************************)
(* InvoiceManager: the manual invoice form.  The line items are addressed  *)
(* by their position; the form addresses them by ids that differ from one  *)
(* another.  The effect that follows a render runs before the next event,  *)
(* so a handler and the effect it triggers are one step.                   *)
(***************************************************************************)
bookingVars == << bookings, bookingsList, currentBooking, isFormOpen, isWalkIn,
                  slipVisible, repairData, isSaving, isGeneratingInvoice >>

\* a write of the modules other than BookingSystem, handed to the store
ModuleWrite(op, data) ==
  [op |-> op, caller |-> op, id |-> UndefinedId, status |-> Undefined,
   updatedAt |-> 0, data |-> data, booking |-> Customer(InitialInvoice @@
     [customerPhone |-> ""]), closureCurrentId |-> -1, mounted |-> TRUE]

Pending(op) == Cardinality({ i \in 1..Len(writeQueue) : writeQueue[i].op = op })

InvoiceFormShown == Screen = "invoices" /\ invoiceTab = "create"

\* what the quantity and price inputs are set to
ItemQuantities == {0, 2}
ItemPrices == {0, Rand(100)}

\* setInvoice(prev => ({ ...prev, items, subtotal, taxAmount, totalAmount,
\* isVatExempt })) of calculateTotals
SetTotals(prev, totals) ==
  [prev EXCEPT !.items = totals.items, !.subtotal = totals.subtotal,
               !.taxAmount = totals.taxAmount,
               !.totalAmount = totals.totalAmount,
               !.isVatExempt = totals.isVatExempt]

\* a form without the effect
TotalsEffectSkipped(inv) == inv

\* useEffect(() => calculateTotals(invoice.items, invoice.isVatExempt,
\* invoice.taxRate), [...]), run after a render that changed one of them
TotalsEffect(inv) ==
  SetTotals(inv, calculateTotals(inv.items, inv.isVatExempt, inv.taxRate))

\* the module step shows nothing, answers nothing and leaves the rest alone
InvoiceFormOnly ==
  /\ NoDispatch
  /\ NoAnswer
  /\ NoMessage
  /\ UNCHANGED << bookingVars, invoices, shopProfile, writeQueue, crashed, now,
                  calc, authVars, peerVars, dashboardVars, gateVars, settingsVars,
                  quoteVars >>

handleItemChange(i, field, value) ==
  /\ InvoiceFormShown
  /\ i \in 1..Len(invoice.items)
  /\ invoice.items[i][field] # value
  /\ LET updatedItem == [invoice.items[i] EXCEPT ![field] = value]
         newItems == [invoice.items EXCEPT
                        ![i] = [updatedItem EXCEPT
                                  !.total = updatedItem.qty * updatedItem.unitPrice]]
     IN invoice' = TotalsEffect(SetTotals(invoice,
          calculateTotals(newItems, invoice.isVatExempt, invoice.taxRate)))
  /\ UNCHANGED invoiceTab
  /\ InvoiceFormOnly

handleAddItem ==
  /\ InvoiceFormShown
  /\ Len(invoice.items) < MaxItems
  /\ LET newItem == [description |-> "", qty |-> 1, unitPrice |-> 0, total |-> 0]
     IN invoice' = TotalsEffect([invoice EXCEPT !.items = Append(@, newItem)])
  /\ UNCHANGED invoiceTab
  /\ InvoiceFormOnly

handleRemoveItem(i) ==
  /\ InvoiceFormShown
  /\ i \in 1..Len(invoice.items)
  /\ LET newItems == SubSeq(invoice.items, 1, i - 1)
                     \o SubSeq(invoice.items, i + 1, Len(invoice.items))
     IN invoice' = TotalsEffect(SetTotals(invoice,
          calculateTotals(newItems, invoice.isVatExempt, invoice.taxRate)))
  /\ UNCHANGED invoiceTab
  /\ InvoiceFormOnly

\* the Exempt checkbox: setInvoice(prev => ({ ...prev, isVatExempt: checked }))
setVatExempt(checked) ==
  /\ InvoiceFormShown
  /\ invoice.isVatExempt # checked
  /\ invoice' = TotalsEffect([invoice EXCEPT !.isVatExempt = checked])
  /\ UNCHANGED invoiceTab
  /\ InvoiceFormOnly

\* "Create New Invoice" / "Invoice History"
setInvoiceTab(tab) ==
  /\ Screen = "invoices"
  /\ invoiceTab # tab
  /\ invoiceTab' = tab
  /\ UNCHANGED invoice
  /\ InvoiceFormOnly

\* the document handleSaveInvoice hands to addDoc
InvoiceDocument(inv, status, p) ==
  [inv EXCEPT !.status = status] @@ [currency |-> p.currency]

RoomForInvoice == Len(invoices) + Pending("saveInvoice") < MaxInvoices

\* handleSaveInvoice, up to its await
handleSaveInvoice(status) ==
  /\ InvoiceFormShown
  /\ RoomForInvoice
  /\ writeQueue' = Append(writeQueue,
       ModuleWrite("saveInvoice", InvoiceDocument(invoice, status, shopProfile)))
  /\ NoDispatch
  /\ NoAnswer
  /\ NoMessage
  /\ UNCHANGED << bookingVars, invoices, shopProfile, crashed, now, calc,
                  authVars, peerVars, dashboardVars, gateVars, settingsVars, invoiceVars,
                  quoteVars >>

\* addDoc of handleSaveInvoice resolves or rejects
AnswerSaveInvoice(accepted) ==
  /\ writeQueue # << >>
  /\ LET w == Head(writeQueue)
     IN /\ w.op = "saveInvoice"
        /\ lastWrite' = Answer(w, accepted)
        /\ writeQueue' = Tail(writeQueue)
        /\ IF accepted
           THEN /\ invoices' = Append(invoices, w.data)
                /\ Show(SuccessBox("Invoice saved successfully!"))
                /\ invoiceTab' = IF w.mounted /\ ~crashed THEN "history"
                                 ELSE invoiceTab
           ELSE /\ Show(ErrorBox("Failed to save invoice."))
                /\ UNCHANGED << invoices, invoiceTab >>
  /\ NoDispatch
  /\ UNCHANGED << bookingVars, shopProfile, crashed, now, calc, authVars, peerVars,
                  dashboardVars, gateVars, settingsVars, invoice, quoteVars >>

InvoiceInit ==
  /\ SessionInit({ << >> }, {InitialProfile})
  /\ SignedIn("invoices")
  /\ calc = NoCalc

InvoiceNext ==
  \/ \E i \in 1..MaxItems, value \in ItemQuantities : handleItemChange(i, "qty", value)
  \/ \E i \in 1..MaxItems, value \in ItemPrices : handleItemChange(i, "unitPrice", value)
  \/ handleAddItem
  \/ \E i \in 1..MaxItems : handleRemoveItem(i)
  \/ \E checked \in BOOLEAN : setVatExempt(checked)
  \/ \E tab \in {"create", "history"} : setInvoiceTab(tab)
  \/ \E status \in {"Draft", "Sent"} : handleSaveInvoice(status)
  \/ \E accepted \in BOOLEAN : AnswerSaveInvoice(accepted)

SpecInvoice == InvoiceInit /\ [][InvoiceNext]_vars

(***************************************************************************)
(* QuotationTemplates: the quotation form.  The generatedDate of a saved   *)
(* quotation, which the session never reads, is left out.                  *)
(***************************************************************************)
\* PREMIUM_RATE = 0.15, in percent
PREMIUM_RATE == 15

DEDUCTIBLE_FLAT == Rand(250)

calculatedPremium(q) == (q.repairCostEstimate * PREMIUM_RATE) \div 100

totalCustomerCost(q) == DEDUCTIBLE_FLAT

QuoteFormShown == Screen = "quotations" /\ quoteTab = "create"

\* what the inputs of the form are set to
QuoteTexts == {"", "typed"}
RepairCostEstimates == {0, Rand(1200), Rand(2000)}

\* the module step answers nothing and leaves the rest alone
QuoteFormOnly ==
  /\ NoDispatch
  /\ NoAnswer
  /\ UNCHANGED << bookingVars, invoices, shopProfile, writeQueue, crashed, now,
                  calc, authVars, peerVars, dashboardVars, gateVars, settingsVars,
                  invoiceVars, quotations >>

\* onChange of the text inputs and of the estimate:
\* setQuote({ ...quote, [field]: value })
setQuote(field, value) ==
  /\ QuoteFormShown
  /\ quote[field] # value
  /\ quote' = [quote EXCEPT ![field] = value]
  /\ NoMessage
  /\ UNCHANGED << quotationVisible, quoteIsSaving, quoteTab >>
  /\ QuoteFormOnly

\* onChange of the BER checkbox: setQuote({ ...quote, isBER: checked });
\* setQuotationVisible(false)
setIsBER(checked) ==
  /\ QuoteFormShown
  /\ quote.isBER # checked
  /\ quote' = [quote EXCEPT !.isBER = checked]
  /\ quotationVisible' = FALSE
  /\ NoMessage
  /\ UNCHANGED << quoteIsSaving, quoteTab >>
  /\ QuoteFormOnly

\* !quote.deviceModel || !quote.customerName || !quote.faultDescription
QuoteIncomplete(q) ==
  q.deviceModel = "" \/ q.customerName = "" \/ q.faultDescription = ""

handleGenerateQuote ==
  /\ QuoteFormShown
  /\ IF QuoteIncomplete(quote)
     THEN /\ Show(ErrorBox("Please fill in Device Model, Customer Name, and Fault Description to generate a quote."))
          /\ UNCHANGED quotationVisible
     ELSE /\ NoMessage
          /\ quotationVisible' = TRUE
  /\ UNCHANGED << quote, quoteIsSaving, quoteTab >>
  /\ QuoteFormOnly

\* "Create New Quotation" / "Quotation History"
setQuoteTab(tab) ==
  /\ Screen = "quotations"
  /\ quoteTab # tab
  /\ quoteTab' = tab
  /\ NoMessage
  /\ UNCHANGED << quote, quotationVisible, quoteIsSaving >>
  /\ QuoteFormOnly

\* a quotation whose premium is waived for a BER report
SavedQuoteWaived(q, p) ==
  q @@ [calculatedPremium |-> IF q.isBER THEN 0 ELSE calculatedPremium(q),
        totalCustomerCost |-> totalCustomerCost(q),
        status |-> IF q.isBER THEN "BER Report" ELSE "Quote Draft",
        currency |-> p.currency]

\* the document handleSaveQuote hands to addDoc
SavedQuote(q, p) ==
  q @@ [calculatedPremium |-> calculatedPremium(q),
        totalCustomerCost |-> totalCustomerCost(q),
        status |-> IF q.isBER THEN "BER Report" ELSE "Quote Draft",
        currency |-> p.currency]

RoomForQuote == Len(quotations) + Pending("saveQuote") < MaxQuotes

\* handleSaveQuote, up to its await; its button is part of the output
\* document, which is rendered while quotationVisible
handleSaveQuote ==
  /\ QuoteFormShown
  /\ quotationVisible /\ ~quoteIsSaving
  /\ RoomForQuote
  /\ quoteIsSaving' = TRUE
  /\ writeQueue' = Append(writeQueue,
       ModuleWrite("saveQuote", SavedQuote(quote, shopProfile)))
  /\ NoDispatch
  /\ NoAnswer
  /\ NoMessage
  /\ UNCHANGED << bookingVars, invoices, shopProfile, crashed, now, calc,
                  authVars, peerVars, dashboardVars, gateVars, settingsVars, invoiceVars,
                  quote, quotationVisible, quoteTab, quotations >>

\* addDoc of handleSaveQuote resolves or rejects
AnswerSaveQuote(accepted) ==
  /\ writeQueue # << >>
  /\ LET w == Head(writeQueue)
     IN /\ w.op = "saveQuote"
        /\ lastWrite' = Answer(w, accepted)
        /\ writeQueue' = Tail(writeQueue)
        /\ quoteIsSaving' = IF w.mounted /\ ~crashed THEN FALSE ELSE quoteIsSaving
        /\ IF accepted
           THEN /\ quotations' = Append(quotations, w.data)
                /\ Show(SuccessBox("Quote/Report saved successfully!"))
                /\ quoteTab' = IF w.mounted /\ ~crashed THEN "history"
                               ELSE quoteTab
           ELSE /\ Show(ErrorBox("Failed to save quote/report."))
                /\ UNCHANGED << quotations, quoteTab >>
  /\ NoDispatch
  /\ UNCHANGED << bookingVars, invoices, shopProfile, crashed, now, calc,
                  authVars, peerVars, dashboardVars, gateVars, settingsVars, invoiceVars,
                  quote, quotationVisible >>

QuoteInit ==
  /\ SessionInit({ << >> }, {InitialProfile})
  /\ SignedIn("quotations")
  /\ calc = NoCalc

QuoteNext ==
  \/ \E field \in {"customerName", "deviceModel", "faultDescription"},
        value \in QuoteTexts : setQuote(field, value)
  \/ \E value \in RepairCostEstimates : setQuote("repairCostEstimate", value)
  \/ \E checked \in BOOLEAN : setIsBER(checked)
  \/ handleGenerateQuote
  \/ \E tab \in {"create", "history"} : setQuoteTab(tab)
  \/ handleSaveQuote
  \/ \E accepted \in BOOLEAN : AnswerSaveQuote(accepted)

SpecQuote == QuoteInit /\ [][QuoteNext]_vars

(***************************************************************************)
(* The session: AuthLoader signs in, Dashboard makes sure the profile      *)
(* document exists and listens to it, SubscriptionGate activates the       *)
(* subscription, SettingsManager saves the profile, and the sidebar        *)
(* switches between the modules.  The profile document is written by this  *)
(* session only.                                                           *)
(***************************************************************************)
\* the step leaves the collections and the module forms alone
SessionOnly ==
  /\ NoDispatch
  /\ UNCHANGED << bookingVars, invoices, now, calc, invoiceVars, quoteVars >>

\* SettingsManager is mounted with the profile of its first render
MountSettings ==
  settingsProfile' =
    IF Screen' # "settings" THEN NoSettings
    ELSE IF Screen = "settings" THEN settingsProfile
    ELSE InitialSettings(shopProfile')

\* onAuthStateChanged calls handleAuth with the user the browser remembers
handleAuth(user) ==
  /\ auth = "start"
  /\ IF user # Null
     THEN \* setAppServices; Dashboard mounts and initializeProfile awaits getDoc
          /\ appServices' = << [userId |-> user] >>
          /\ auth' = "done"
          /\ bootstrap' = "getDoc"
     ELSE \* attemptSignIn awaits the sign-in
          /\ auth' = "signingIn"
          /\ UNCHANGED << appServices, bootstrap >>
  /\ NoAnswer
  /\ NoMessage
  /\ UNCHANGED << shopProfile, writeQueue, crashed, profileDoc, loadingProfile,
                  authError, activeModule, gateVars, settingsVars, peerVars >>
  /\ SessionOnly

\* signInWithCustomToken / signInAnonymously resolves, and the listener
\* calls handleAuth with the user, or rejects
attemptSignIn(accepted) ==
  /\ auth = "signingIn"
  /\ IF accepted
     THEN \E user \in TenantIds :
            /\ appServices' = << [userId |-> user] >>
            /\ auth' = "done"
            /\ bootstrap' = "getDoc"
     ELSE \* setAppServices({ ..., userId: null }); the effects of Dashboard
          \* return at their guard
          /\ appServices' = << [userId |-> Null] >>
          /\ auth' = "failed"
          /\ UNCHANGED bootstrap
  /\ NoAnswer
  /\ NoMessage
  /\ UNCHANGED << shopProfile, writeQueue, crashed, profileDoc, loadingProfile,
                  authError, activeModule, gateVars, settingsVars, peerVars >>
  /\ SessionOnly

\* initializeProfile: getDoc resolves or rejects
initializeProfileGetDoc(accepted) ==
  /\ bootstrap = "getDoc"
  /\ IF ~accepted
     THEN /\ authError' = "Profile setup failed"
          /\ loadingProfile' = FALSE
          /\ bootstrap' = "failed"
          /\ UNCHANGED << shopProfile, crashed >>
     ELSE IF profileDoc = << >>
          THEN \* await setDoc(docRef, initialProfile)
               /\ bootstrap' = "setDoc"
               /\ UNCHANGED << shopProfile, loadingProfile, authError, crashed >>
          ELSE /\ shopProfile' = profileDoc[1]
               /\ loadingProfile' = FALSE
               /\ bootstrap' = "loaded"
               /\ crashed' = DashboardThrows(FALSE, authError, profileDoc[1])
               /\ UNCHANGED authError
  /\ NoAnswer
  /\ NoMessage
  /\ UNCHANGED << writeQueue, authVars, peerVars, profileDoc, activeModule, gateVars,
                  profileIsSaving >>
  /\ MountSettings
  /\ SessionOnly

\* initializeProfile: setDoc resolves or rejects
initializeProfileSetDoc(accepted) ==
  /\ bootstrap = "setDoc"
  /\ lastWrite' = [NoWrite EXCEPT !.op = "setProfile", !.caller = "initializeProfile",
                                  !.accepted = accepted]
  /\ IF accepted
     THEN /\ profileDoc' = << InitialProfile >>
          /\ shopProfile' = InitialProfile
          /\ bootstrap' = "created"
          /\ UNCHANGED authError
     ELSE /\ authError' = "Profile setup failed"
          /\ bootstrap' = "failed"
          /\ UNCHANGED << profileDoc, shopProfile >>
  /\ loadingProfile' = FALSE
  /\ NoMessage
  /\ UNCHANGED << writeQueue, crashed, authVars, peerVars, activeModule, gateVars,
                  profileIsSaving >>
  /\ MountSettings
  /\ SessionOnly

\* the onSnapshot callback of the profile listener, which is set up once
\* loadingProfile is false
DeliverProfileSnapshot ==
  /\ ~crashed
  /\ appServices # << >> /\ appServices[1].userId # Null
  /\ ~loadingProfile
  /\ LET p == IF profileDoc = << >> THEN NullProfile ELSE profileDoc[1]
     IN /\ shopProfile # p
        /\ shopProfile' = p
        /\ crashed' = DashboardThrows(loadingProfile, authError, p)
  /\ NoAnswer
  /\ NoMessage
  /\ UNCHANGED << writeQueue, authVars, peerVars, dashboardVars, gateVars, profileIsSaving >>
  /\ MountSettings
  /\ SessionOnly

\* sidebar button: setActiveModule(item.id); the module shown is unmounted
\* and the new one is mounted with its initial state
setActiveModule(module) ==
  /\ Screen \in Modules \cup {"SubscriptionGate", "Initializing"}
  /\ activeModule # module
  /\ activeModule' = module
  /\ writeQueue' = IF Screen \in Modules THEN Unmounted(writeQueue) ELSE writeQueue
  /\ bookingsList' = << >>
  /\ currentBooking' = << >>
  /\ isFormOpen' = FALSE
  /\ isWalkIn' = FALSE
  /\ slipVisible' = FALSE
  /\ repairData' = NoRepairData
  /\ isSaving' = FALSE
  /\ isGeneratingInvoice' = FALSE
  /\ invoice' = InitialInvoice
  /\ invoiceTab' = "create"
  /\ quote' = InitialQuote
  /\ quotationVisible' = FALSE
  /\ quoteIsSaving' = FALSE
  /\ quoteTab' = "create"
  /\ profileIsSaving' = FALSE
  /\ NoDispatch
  /\ NoAnswer
  /\ NoMessage
  /\ UNCHANGED << storeVars, quotations, shopProfile, crashed, now, calc,
                  authVars, peerVars, profileDoc, loadingProfile, authError, bootstrap,
                  gateVars >>
  /\ MountSettings

\* SubscriptionGate.handleSubscribe, up to its first await: the timer of
\* the mock payment
handleSubscribe ==
  /\ Screen = "SubscriptionGate"
  /\ ~isProcessing
  /\ isProcessing' = TRUE
  /\ subError' = Null
  /\ writeQueue' = Append(writeQueue, ModuleWrite("paymentDelay", << >>))
  /\ NoAnswer
  /\ NoMessage
  /\ UNCHANGED << shopProfile, crashed, authVars, peerVars, dashboardVars, settingsVars >>
  /\ SessionOnly

\* the timer fires and handleSubscribe awaits updateDoc
PaymentDelayElapsed ==
  /\ writeQueue # << >>
  /\ Head(writeQueue).op = "paymentDelay"
  /\ writeQueue' = << [Head(writeQueue) EXCEPT !.op = "subscribe",
                                               !.caller = "subscribe"] >>
                   \o Tail(writeQueue)
  /\ NoAnswer
  /\ NoMessage
  /\ UNCHANGED << shopProfile, crashed, authVars, peerVars, dashboardVars, gateVars,
                  settingsVars >>
  /\ SessionOnly

\* a payment that marks the plan and leaves the status as it is
ActivatedPlanOnly(p) == [plan |-> "PRO"] @@ p

\* the document after updateDoc(docRef, { subscription_status: 'active',
\* subscription_start, plan: 'PRO' })
Activated(p) == [subscription_status |-> "active", plan |-> "PRO"] @@ p

\* updateDoc of handleSubscribe resolves or rejects; it rejects when the
\* document is absent
AnswerSubscribe(accepted) ==
  /\ writeQueue # << >>
  /\ LET w == Head(writeQueue)
     IN /\ w.op = "subscribe"
        /\ accepted => profileDoc # << >>
        /\ lastWrite' = Answer(w, accepted)
        /\ writeQueue' = Tail(writeQueue)
        /\ isProcessing' = FALSE
        /\ IF accepted
           THEN /\ profileDoc' = << Activated(profileDoc[1]) >>
                \* onSubscribeSuccess
                /\ shopProfile' =
                     IF shopProfile = NullProfile
                     THEN [subscription_status |-> "active"]
                     ELSE [subscription_status |-> "active"] @@ shopProfile
                /\ NoMessage
                /\ UNCHANGED subError
           ELSE /\ subError' = "Payment failed. Please try again."
                /\ Show(ErrorBox("Payment failed. Please try again."))
                /\ UNCHANGED << profileDoc, shopProfile >>
  /\ UNCHANGED << crashed, authVars, peerVars, loadingProfile, authError, bootstrap,
                  activeModule, profileIsSaving >>
  /\ MountSettings
  /\ SessionOnly

\* CURRENCIES
Currencies == {"ZAR", "USD"}

\* the currency select of SettingsManager: setProfile({ ...profile, currency })
setProfile(currency) ==
  /\ Screen = "settings"
  /\ settingsProfile.currency # currency
  /\ settingsProfile' = [settingsProfile EXCEPT !.currency = currency]
  /\ NoAnswer
  /\ NoMessage
  /\ UNCHANGED << shopProfile, writeQueue, crashed, authVars, peerVars, dashboardVars,
                  gateVars, profileIsSaving >>
  /\ SessionOnly

\* SettingsManager.handleProfileSave, up to its await
handleProfileSave ==
  /\ Screen = "settings"
  /\ ~profileIsSaving
  /\ Pending("saveProfile") < MaxPending
  /\ profileIsSaving' = TRUE
  /\ writeQueue' = Append(writeQueue, ModuleWrite("saveProfile", settingsProfile))
  /\ NoAnswer
  /\ NoMessage
  /\ UNCHANGED << shopProfile, crashed, authVars, peerVars, dashboardVars, gateVars,
                  settingsProfile >>
  /\ SessionOnly

\* updateDoc of handleProfileSave resolves or rejects; the message is
\* state of SettingsManager and is shown while that instance is mounted
AnswerProfileSave(accepted) ==
  /\ writeQueue # << >>
  /\ LET w == Head(writeQueue)
     IN /\ w.op = "saveProfile"
        /\ accepted => profileDoc # << >>
        /\ lastWrite' = Answer(w, accepted)
        /\ writeQueue' = Tail(writeQueue)
        /\ profileIsSaving' = IF w.mounted THEN FALSE ELSE profileIsSaving
        /\ IF accepted
           THEN /\ profileDoc' = << w.data @@ profileDoc[1] >>
                \* onProfileUpdate(profile)
                /\ shopProfile' = w.data @@ shopProfile
                /\ IF w.mounted
                   THEN Show(SuccessBox("Shop profile saved successfully!"))
                   ELSE NoMessage
           ELSE /\ IF w.mounted
                   THEN Show(ErrorBox("Failed to save profile"))
                   ELSE NoMessage
                /\ UNCHANGED << profileDoc, shopProfile >>
  /\ UNCHANGED << crashed, authVars, peerVars, loadingProfile, authError, bootstrap,
                  activeModule, gateVars, settingsProfile >>
  /\ SessionOnly

\* the page is loaded: AuthLoader is mounted, Dashboard is not
SessionStart ==
  /\ SessionInit({ << >> }, {NullProfile})
  /\ auth = "start"
  /\ appServices = << >>
  /\ profileDoc \in StoredProfiles
  /\ loadingProfile = TRUE
  /\ authError = Null
  /\ bootstrap = "idle"
  /\ activeModule = "bookings"
  /\ isProcessing = FALSE
  /\ subError = Null
  /\ settingsProfile = NoSettings
  /\ profileIsSaving = FALSE
  /\ invoice = InitialInvoice
  /\ invoiceTab = "create"
  /\ quote = InitialQuote
  /\ quotationVisible = FALSE
  /\ quoteIsSaving = FALSE
  /\ quoteTab = "create"
  /\ quotations = << >>
  /\ peerBootstrap = "idle"
  /\ lastMessage = NoBox
  /\ calc = NoCalc

SessionNext ==
  \/ \E user \in TenantIds \cup {Null} : handleAuth(user)
  \/ \E accepted \in BOOLEAN : attemptSignIn(accepted)
  \/ \E accepted \in BOOLEAN : initializeProfileGetDoc(accepted)
  \/ \E accepted \in BOOLEAN : initializeProfileSetDoc(accepted)
  \/ DeliverProfileSnapshot
  \/ \E module \in Modules : setActiveModule(module)
  \/ handleSubscribe
  \/ PaymentDelayElapsed
  \/ \E accepted \in BOOLEAN : AnswerSubscribe(accepted)
  \/ \E currency \in Currencies : setProfile(currency)
  \/ handleProfileSave
  \/ \E accepted \in BOOLEAN : AnswerProfileSave(accepted)

SpecSession == SessionStart /\ [][SessionNext]_vars

\* every step of the session that can be taken is taken in the end: the
\* answers of the store and of the sign-in service arrive, timers fire
SpecSessionLive == SpecSession /\ WF_vars(SessionNext)

(***************************************************************************)
(* getTenantPath and getShopProfileRef.  A location is the string the      *)
(* template literal builds, as the sequence of its characters; doc() and   *)
(* collection() join their path segments with "/".                         *)
(***************************************************************************)
Slash == << "/" >>

\* the literals of the paths; appId is 'default-app-id' unless the host
\* page sets another
ArtifactsSegment == << "a", "r", "t", "i", "f", "a", "c", "t", "s" >>
UsersSegment == << "u", "s", "e", "r", "s" >>
ProfileSegment == << "p", "r", "o", "f", "i", "l", "e" >>
DataSegment == << "d", "a", "t", "a" >>
appId == << "a", "p", "p" >>

\* the collection names the modules pass
CollectionNames ==
  { << "b", "o", "o", "k", "i", "n", "g", "s" >>,
    << "i", "n", "v", "o", "i", "c", "e", "s" >>,
    << "q", "u", "o", "t", "a", "t", "i", "o", "n", "s" >> }

\* tenant identifiers: the uid of Firebase Auth, letters and digits
IdChars == {"a", "b"}
UserIds == UNION { [1..n -> IdChars] : n \in 1..MaxIdLen }

\* document ids inside a collection
DocumentIds == { << "x" >>, DataSegment, ProfileSegment \o Slash \o DataSegment }

\* a path that leaves the tenant out
getTenantPathShared(userId, collectionName) ==
  ArtifactsSegment \o Slash \o appId \o Slash \o UsersSegment \o Slash
    \o collectionName

\* `artifacts/${appId}/users/${userId}/${collectionName}`
getTenantPath(userId, collectionName) ==
  ArtifactsSegment \o Slash \o appId \o Slash \o UsersSegment \o Slash
    \o userId \o Slash \o collectionName

\* doc(db, `artifacts/${appId}/users`, userId, 'profile', 'data')
getShopProfileRef(userId) ==
  ArtifactsSegment \o Slash \o appId \o Slash \o UsersSegment \o Slash
    \o userId \o Slash \o ProfileSegment \o Slash \o DataSegment

\* doc(db, getTenantPath(userId, collectionName), id)
DocumentPath(collectionPath, id) == collectionPath \o Slash \o id

\* location a lies under location b
Under(a, b) ==
  Len(a) > Len(b) /\ SubSeq(a, 1, Len(b) + 1) = b \o Slash

PathsInit ==
  /\ SessionInit({ << >> }, {InitialProfile})
  /\ SignedIn("bookings")
  /\ \E u1 \in UserIds, u2 \in UserIds, c1 \in CollectionNames,
        c2 \in CollectionNames :
       calc = [fn |-> "getTenantPath",
               args |-> [u1 |-> u1, c1 |-> c1, u2 |-> u2, c2 |-> c2],
               result |-> << >>]

CallGetTenantPath ==
  /\ calc.fn = "getTenantPath"
  /\ calc.result = << >>
  /\ calc' = [calc EXCEPT !.result =
       << [p1 |-> getTenantPath(calc.args.u1, calc.args.c1),
           p2 |-> getTenantPath(calc.args.u2, calc.args.c2),
           profile1 |-> getShopProfileRef(calc.args.u1),
           profile2 |-> getShopProfileRef(calc.args.u2)] >>]
  /\ UNCHANGED sessionVars

PathsNext == CallGetTenantPath

SpecPaths == PathsInit /\ [][PathsNext]_vars

(***************************************************************************)
(* Two sessions of one tenant on the same bookings.  The other session     *)
(* runs the same program: what reaches this session of it is its writes,   *)
(* applied by the store when they arrive.  The store applies updateDoc to  *)
(* an existing document without a precondition on its contents.            *)
(***************************************************************************)
\* the statuses the other session writes
PeerChoices == {"Awaiting Parts", "Collected"}

PeerAnswer(op, id, status) ==
  [op |-> op, caller |-> "peer", accepted |-> TRUE, id |-> id,
   status |-> status, updatedAt |-> now, was |-> bookings[id].status]

PeerOnly ==
  /\ NoDispatch
  /\ NoMessage
  /\ UNCHANGED << invoices, shopProfile, systemVars, formVars, modalVars,
                  writeQueue, crashed, calc, moduleVars >>

\* updateBookingStatus of the other session: its updateDoc reaches the store
PeerUpdateStatus(id, status) ==
  /\ id \in DOMAIN bookings
  /\ CanStamp(0)
  /\ lastWrite' = PeerAnswer("updateStatus", id, status)
  /\ bookings' = [bookings EXCEPT ![id] = StatusUpdate(@, status, now)]
  /\ now' = now + 1
  /\ PeerOnly

\* handleUpdateRepair of the other session: its updateDoc reaches the store
PeerUpdateRepair(id, status) ==
  /\ id \in DOMAIN bookings
  /\ CanStamp(0)
  /\ lastWrite' = PeerAnswer("updateRepair", id, status)
  /\ bookings' = [bookings EXCEPT
                    ![id] = RepairUpdate(@, DefaultRepairData(status), now)]
  /\ now' = now + 1
  /\ PeerOnly

SharedInit ==
  /\ SessionInit(SeededStores, {InitialProfile})
  /\ SignedIn("bookings")
  /\ calc = NoCalc

SharedNext ==
  \/ StatusNext(ToolChoices, FormChoices)
  \/ GenerateNext
  \/ \E id \in BookingIds, status \in PeerChoices : PeerUpdateStatus(id, status)
  \/ \E id \in BookingIds, status \in PeerChoices : PeerUpdateRepair(id, status)

SpecShared == SharedInit /\ [][SharedNext]_vars

\* the listener's callback runs whenever the store has a snapshot the list
\* does not show
SpecSharedLive == SpecShared /\ WF_vars(DeliverSnapshot)

(***************************************************************************)
(* Two sessions of one tenant on the same profile document.  The other     *)
(* session runs initializeProfile, handleProfileSave and handleSubscribe   *)
(* of the same program; its reads and writes reach the store one by one.   *)
(***************************************************************************)
PeerProfileAnswer(op) ==
  [NoWrite EXCEPT !.op = op, !.caller = "peer", !.accepted = TRUE]

PeerProfileOnly ==
  /\ NoDispatch
  /\ NoMessage
  /\ UNCHANGED << bookingVars, invoices, shopProfile, writeQueue, crashed, now,
                  calc, authVars, loadingProfile, authError, bootstrap,
                  activeModule, gateVars, settingsVars, invoiceVars,
                  quoteVars >>

\* initializeProfile of the other session: getDoc resolves, and the
\* session goes on to setDoc when the document does not exist
PeerGetDoc ==
  /\ peerBootstrap = "idle"
  /\ peerBootstrap' = IF profileDoc = << >> THEN "setDoc" ELSE "loaded"
  /\ NoAnswer
  /\ UNCHANGED profileDoc
  /\ PeerProfileOnly

\* initializeProfile of the other session: setDoc(docRef, initialProfile)
\* reaches the store, which replaces the document
PeerSetDoc ==
  /\ peerBootstrap = "setDoc"
  /\ peerBootstrap' = "created"
  /\ profileDoc' = << InitialProfile >>
  /\ lastWrite' = PeerProfileAnswer("setProfile")
  /\ PeerProfileOnly

\* handleProfileSave of the other session: updateDoc(docRef, profile)
PeerProfileSave(currency) ==
  /\ peerBootstrap \in {"loaded", "created"}
  /\ profileDoc # << >>
  /\ profileDoc' = << [currency |-> currency] @@ profileDoc[1] >>
  /\ lastWrite' = PeerProfileAnswer("saveProfile")
  /\ UNCHANGED peerBootstrap
  /\ PeerProfileOnly

\* handleSubscribe of the other session: updateDoc(docRef, { ... })
PeerSubscribe ==
  /\ peerBootstrap \in {"loaded", "created"}
  /\ profileDoc # << >>
  /\ profileDoc' = << Activated(profileDoc[1]) >>
  /\ lastWrite' = PeerProfileAnswer("subscribe")
  /\ UNCHANGED peerBootstrap
  /\ PeerProfileOnly

TenantNext ==
  \/ SessionNext
  \/ PeerGetDoc
  \/ PeerSetDoc
  \/ \E currency \in Currencies : PeerProfileSave(currency)
  \/ PeerSubscribe

SpecTenant == SessionStart /\ [][TenantNext]_vars

(***************************************************************************)
(* Listeners.  Each view registers its listener in an effect; React calls  *)
(* the function the effect returns when the view is torn down.  A render   *)
(* that throws unmounts the whole tree, AuthLoader included.               *)
(***************************************************************************)
Listeners == {"auth", "profile", "bookings", "invoices", "quotations"}

\* the effect returns a function that calls unsubscribe().  The effect of
\* AuthLoader calls the async initFirebase and returns nothing: the cleanup
\* function is the value of the promise initFirebase returns, which the
\* effect drops
ReturnsCleanup(listener) == listener # "auth"

\* the view of the listener is mounted and its effect has passed its guard
Registered(listener) ==
  /\ ~crashed
  /\ CASE listener = "auth" -> TRUE
       [] listener = "profile" ->
            /\ appServices # << >> /\ appServices[1].userId # Null
            /\ ~loadingProfile
       [] OTHER -> Screen = listener

\* the listener is subscribed: it was registered, and it is released at
\* teardown only by the function its effect returned; the auth listener is
\* registered when the page is loaded
Subscribed(listener) == Registered(listener) \/ ~ReturnsCleanup(listener)

(***************************************************************************)
(* Properties.                                                             *)
(***************************************************************************)
\* the writes in flight
InFlight == { writeQueue[i] : i \in 1..Len(writeQueue) }

\* an invoice linked to booking id is persisted
Invoiced(id) == \E k \in 1..Len(invoices) : invoices[k].relatedBookingId = id

\* C1: after any sequence of check-ins, online requests, manual status
\* updates, repair-form saves and invoice generations, every stored booking
\* has a status that is one of the eight values of the closed set.
StoredStatusClosed ==
  \A id \in DOMAIN bookings : bookings[id].status \in Statuses

\* a booking created by check-in in this session has been moved by the tool
StoredStatusClosedWitness ==
  /\ lastWrite.caller = "tool" /\ lastWrite.accepted
  /\ bookings[lastWrite.id].bookingType = "Walk-in"
  /\ bookings[lastWrite.id].createdAt > 0
  /\ lastWrite.was = "Confirmed"
  /\ bookings[lastWrite.id].status = "Collected"

\* C2: for every in-memory list the 'Total Repairs' count of groupedBookings
\* equals the sum of the lengths of the eight per-status buckets, and every
\* booking of the list appears in exactly one bucket.
GroupingPartitions ==
  (calc.fn = "groupedBookings" /\ calc.result # << >>) =>
    LET list == calc.args
        grouped == calc.result[1]
        Holds(s, b) ==
          \E j \in 1..Len(grouped.groups[s]) : grouped.groups[s][j] = b
    IN /\ grouped.totalRepairs
            = SumSeq([k \in 1..Len(statusOrder) |->
                        Len(grouped.groups[statusOrder[k]])])
       /\ \A i \in 1..Len(list) :
            Cardinality({ s \in Statuses : Holds(s, list[i]) }) = 1

\* three bookings grouped, two of them into one bucket beyond the board
GroupingPartitionsWitness ==
  /\ calc.fn = "groupedBookings" /\ calc.result # << >>
  /\ Len(calc.args) = 3
  /\ Len(calc.result[1].groups["Collected"]) = 2
  /\ Len(calc.result[1].groups["New Request"]) = 1
  /\ calc.result[1].totalRepairs = 3

\* C3: the status write has no guard: whatever status the booking has, an
\* accepted status write (of updateBookingStatus or of the repair-form save)
\* leaves the booking in the status written and sets its updated-timestamp
\* to the time of the write.
StatusWriteUnguarded ==
  (lastWrite.op \in {"updateStatus", "updateRepair"} /\ lastWrite.accepted) =>
    /\ lastWrite.was \in Statuses
    /\ lastWrite.status \in Statuses
    /\ bookings[lastWrite.id].status = lastWrite.status
    /\ bookings[lastWrite.id].updatedAt = lastWrite.updatedAt
    /\ lastWrite.updatedAt > 0

\* a booking in Collected has been moved back to New Request
StatusWriteUnguardedWitness ==
  /\ lastWrite.op \in {"updateStatus", "updateRepair"} /\ lastWrite.accepted
  /\ lastWrite.was = "Collected"
  /\ lastWrite.status = "New Request"
  /\ bookings[lastWrite.id].status = "New Request"

\* C4: a booking created by the walk-in check-in is stored with status
\* Confirmed and type Walk-in, one created by the online request with status
\* New Request and type Online; no created booking starts otherwise.
CreatedBookingStart ==
  (lastWrite.op = "addBooking" /\ lastWrite.accepted) =>
    LET created == bookings[lastWrite.id]
    IN \/ /\ lastWrite.caller = "checkIn"
          /\ created.status = "Confirmed"
          /\ created.bookingType = "Walk-in"
       \/ /\ lastWrite.caller = "online"
          /\ created.status = "New Request"
          /\ created.bookingType = "Online"

\* a walk-in booking has just been stored
CreatedBookingStartWitness ==
  /\ lastWrite.op = "addBooking" /\ lastWrite.accepted
  /\ lastWrite.caller = "checkIn"
  /\ bookings[lastWrite.id].status = "Confirmed"
  /\ bookings[lastWrite.id].customerName = "Thandi"

\* C5: when the update-status tool has run for a booking of the in-memory
\* list and a target status t, the booking's stored status is t and the
\* notification dispatched names the booking's invoice number and t.
ToolUpdatesAndNotifies ==
  lastWrite.caller = "tool" =>
    /\ bookings[lastWrite.id].status = lastWrite.status
    /\ lastNotification.invoiceNo = bookings[lastWrite.id].invoiceNo
    /\ lastNotification.status = lastWrite.status

\* the tool has announced a status the booking does not have
ToolNotifiedWithoutUpdate ==
  /\ lastWrite.caller = "tool" /\ ~lastWrite.accepted
  /\ lastNotification.invoiceNo = bookings[lastWrite.id].invoiceNo
  /\ lastNotification.status = "Ready for Collection"
  /\ bookings[lastWrite.id].status = "In Progress"

\* C6: when invoice generation has succeeded (the handler has run to its
\* 'Collected (Invoice Sent)' notification), an invoice linked to the
\* booking is persisted, the booking's stored status is Collected and the
\* notification is for that booking.
GenerationHasAllEffects ==
  (lastWrite.caller = "generate" /\ lastWrite.op = "updateStatus") =>
    /\ Invoiced(lastWrite.id)
    /\ bookings[lastWrite.id].status = "Collected"
    /\ lastNotification.status = "Collected (Invoice Sent)"
    /\ lastNotification.invoiceNo = bookings[lastWrite.id].invoiceNo

\* generation has announced Collected for a booking that is not
GenerationAnnouncedWithoutStatus ==
  /\ lastWrite.caller = "generate" /\ lastWrite.op = "updateStatus"
  /\ lastNotification.status = "Collected (Invoice Sent)"
  /\ Invoiced(lastWrite.id)
  /\ bookings[lastWrite.id].status # "Collected"
  /\ currentBooking = << >>

\* C7, as stated: the two writes of invoice generation are independent, so
\* the status write to Collected is issued whatever became of the invoice
\* write (the job can be Collected while the invoice write failed).
GenerationWritesIndependent ==
  lastWrite.op = "addInvoice" =>
    \E w \in InFlight : /\ w.op = "updateStatus" /\ w.caller = "generate"
                        /\ w.id = lastWrite.id /\ w.status = "Collected"

\* C7, amended: the status write of invoice generation is issued only once
\* the invoice is persisted, and a rejected invoice write ends the
\* generation with the booking's status as it was; the one partial outcome
\* is the invoice persisted with the status write rejected.
GenerationInvoiceFirst ==
  /\ \A w \in InFlight :
       (w.op = "updateStatus" /\ w.caller = "generate") => Invoiced(w.id)
  /\ (lastWrite.op = "updateStatus" /\ lastWrite.caller = "generate")
       => Invoiced(lastWrite.id)
  /\ (lastWrite.op = "addInvoice" /\ ~lastWrite.accepted) =>
       /\ bookings[lastWrite.id].status = lastWrite.was
       /\ ~\E w \in InFlight : w.caller = "generate" /\ w.id = lastWrite.id

\* the invoice is persisted, the status write was rejected, the booking is
\* not Collected and no write is left in flight
GenerationInvoiceFirstWitness ==
  /\ lastWrite.op = "updateStatus" /\ lastWrite.caller = "generate"
  /\ ~lastWrite.accepted
  /\ Invoiced(lastWrite.id)
  /\ bookings[lastWrite.id].status = "In Progress"
  /\ writeQueue = << >>

\* C8: the invoice generated from a job holds exactly one labor line
\* (described by the confirmed fault or, if that is empty, by the original
\* issue, and priced at the labor cost) and after it exactly one line for
\* each part with cost > 0 and a non-empty name, in the order of the parts;
\* the other parts produce no line.  The invoice is persisted as generated.
GeneratedInvoiceLines ==
  [][ /\ (/\ Len(writeQueue') = Len(writeQueue) + 1
          /\ writeQueue'[Len(writeQueue')].op = "addInvoice") =>
            LET generated == writeQueue'[Len(writeQueue')].data
                parts == repairData.partsUsed
                Billed == { i \in 1..Len(parts) :
                              parts[i].cost > 0 /\ parts[i].name # "" }
                Rank(i) == Cardinality({ k \in Billed : k <= i })
            IN /\ Len(generated.items) = 1 + Cardinality(Billed)
               /\ generated.items[1].description =
                    << "Labor", IF repairData.finalFault # ""
                                THEN repairData.finalFault
                                ELSE currentBooking[1].deviceIssue >>
               /\ generated.items[1].qty = 1
               /\ generated.items[1].unitPrice = repairData.laborCost
               /\ \A i \in Billed :
                    /\ generated.items[1 + Rank(i)].description
                         = << "Part", parts[i].name >>
                    /\ generated.items[1 + Rank(i)].qty = 1
                    /\ generated.items[1 + Rank(i)].unitPrice = parts[i].cost
      /\ (lastWrite'.op = "addInvoice" /\ lastWrite'.accepted) =>
            invoices' = Append(invoices, Head(writeQueue).data)
    ]_vars

\* an invoice of two lines has been generated from two parts with a cost,
\* one of them without a name
GeneratedInvoiceLinesWitness ==
  /\ isGeneratingInvoice
  /\ \E w \in InFlight : w.op = "addInvoice" /\ Len(w.data.items) = 2
                         /\ w.data.items[2].description = << "Part", "LCD" >>
  /\ Len(repairData.partsUsed) = 2
  /\ repairData.partsUsed[1] = [name |-> "", cost |-> Rand(100)]
  /\ repairData.partsUsed[2] = [name |-> "LCD", cost |-> Rand(100)]

\* C9: every invoice generated from a job, in flight or stored, has
\* taxRate 15, isVatExempt false, subtotal = the sum of its line totals,
\* taxAmount = subtotal * 15 / 100 and totalAmount = subtotal + taxAmount,
\* whatever the tenant profile contains.
GeneratedInvoiceTax ==
  \A generated \in RangeOf(invoices)
                   \cup { w.data : w \in { v \in InFlight : v.op = "addInvoice" } } :
    /\ generated.taxRate = 15
    /\ generated.isVatExempt = FALSE
    /\ generated.subtotal
         = SumSeq([i \in 1..Len(generated.items) |->
                     generated.items[i].qty * generated.items[i].unitPrice])
    /\ \A i \in 1..Len(generated.items) :
         generated.items[i].total = generated.items[i].qty * generated.items[i].unitPrice
    /\ 100 * generated.taxAmount = generated.subtotal * 15
    /\ generated.totalAmount = generated.subtotal + generated.taxAmount

\* an invoice of 450.00 is stored with 67.50 of tax for the tenant whose
\* profile holds a rate of 20
GeneratedInvoiceTaxWitness ==
  /\ "taxRate" \in DOMAIN shopProfile
  /\ shopProfile.taxRate = 20
  /\ Len(invoices) = 1
  /\ invoices[1].currency = "EUR"
  /\ invoices[1].subtotal = Rand(450)
  /\ invoices[1].taxAmount = 6750
  /\ invoices[1].totalAmount = 51750

\* C10: for line items with non-negative quantities and prices, any tax
\* rate and either value of the exemption flag, calculateTotals yields
\* subtotal = the sum of qty * unitPrice, tax = 0 if exempt and
\* subtotal * taxRate / 100 otherwise, and total = subtotal + tax.
TotalsFormulas ==
  (calc.fn = "calculateTotals" /\ calc.result # << >>) =>
    LET items == calc.args.currentItems
        totals == calc.result[1]
        sum == SumSeq([i \in 1..Len(items) |-> items[i].qty * items[i].unitPrice])
    IN /\ \A i \in 1..Len(items) : items[i].qty >= 0 /\ items[i].unitPrice >= 0
       /\ totals.subtotal = sum
       /\ IF calc.args.isVatExempt THEN totals.taxAmount = 0
          ELSE 100 * totals.taxAmount = sum * calc.args.taxRate
       /\ totals.totalAmount = sum + totals.taxAmount

\* one item, qty 2 at 100.00, rate 15, not exempt: 200.00 / 30.00 / 230.00
TotalsFormulasWitness ==
  /\ calc.fn = "calculateTotals" /\ calc.result # << >>
  /\ calc.args.currentItems = << [qty |-> 2, unitPrice |-> Rand(100)] >>
  /\ calc.args.taxRate = 15 /\ ~calc.args.isVatExempt
  /\ calc.result[1].subtotal = Rand(200)
  /\ calc.result[1].taxAmount = Rand(30)
  /\ calc.result[1].totalAmount = Rand(230)

\* C11: after any sequence of line-item adds, removes and edits and of
\* VAT-exempt toggles in the manual invoice form, every invoice document
\* handed to the store by handleSaveInvoice, in flight or stored, has each
\* item's total equal to its qty * unitPrice, subtotal equal to the sum of
\* qty * unitPrice over its items, taxAmount equal to 0 if it is exempt and
\* to subtotal * taxRate / 100 otherwise, and totalAmount equal to
\* subtotal + taxAmount.
SavedInvoiceTotals ==
  \A saved \in RangeOf(invoices)
                 \cup { w.data : w \in { v \in InFlight : v.op = "saveInvoice" } } :
    /\ \A i \in 1..Len(saved.items) :
         saved.items[i].total = saved.items[i].qty * saved.items[i].unitPrice
    /\ saved.subtotal
         = SumSeq([i \in 1..Len(saved.items) |->
                     saved.items[i].qty * saved.items[i].unitPrice])
    /\ IF saved.isVatExempt THEN saved.taxAmount = 0
       ELSE 100 * saved.taxAmount = saved.subtotal * saved.taxRate
    /\ saved.totalAmount = saved.subtotal + saved.taxAmount

\* an exempt invoice of two lines, one of them edited to 2 x 100, is stored
SavedInvoiceTotalsWitness ==
  \E n \in 1..Len(invoices) :
    /\ Len(invoices[n].items) = 2
    /\ invoices[n].isVatExempt
    /\ invoices[n].items[2].qty = 2
    /\ invoices[n].items[2].unitPrice = Rand(100)
    /\ invoices[n].subtotal = Rand(200)
    /\ invoices[n].totalAmount = Rand(200)
    /\ lastWrite.op = "saveInvoice" /\ lastWrite.accepted

\* C12: every quotation handed to the store by handleSaveQuote, in flight
\* or stored, has calculatedPremium = repairCostEstimate * 15 / 100 and
\* totalCustomerCost = 250, for every estimate and either value of the BER
\* flag; an estimate of 1200 gives a premium of 180 and a customer cost of
\* 250.
SavedQuotePremium ==
  \A saved \in RangeOf(quotations)
                 \cup { w.data : w \in { v \in InFlight : v.op = "saveQuote" } } :
    /\ 100 * saved.calculatedPremium = saved.repairCostEstimate * 15
    /\ saved.totalCustomerCost = Rand(250)
    /\ saved.repairCostEstimate = Rand(1200) =>
         saved.calculatedPremium = Rand(180)

\* a BER report with the estimate 1200 is stored with premium 180 and
\* customer cost 250
SavedQuotePremiumWitness ==
  \E n \in 1..Len(quotations) :
    /\ quotations[n].isBER
    /\ quotations[n].status = "BER Report"
    /\ quotations[n].repairCostEstimate = Rand(1200)
    /\ quotations[n].calculatedPremium = Rand(180)
    /\ quotations[n].totalCustomerCost = Rand(250)

\* C18: after any sequence of field edits, BER toggles, Generate clicks and
\* Save clicks in the quotation form, every quotation handed to the store,
\* in flight or stored, has a non-empty device model, customer name and
\* fault description.
SavedQuoteComplete ==
  \A saved \in RangeOf(quotations)
                 \cup { w.data : w \in { v \in InFlight : v.op = "saveQuote" } } :
    ~QuoteIncomplete(saved)

\* a quotation without a customer name is stored
IncompleteQuoteStored ==
  \E n \in 1..Len(quotations) :
    /\ quotations[n].customerName = ""
    /\ quotations[n].deviceModel # ""
    /\ quotations[n].faultDescription # ""

\* a profile is loaded and Dashboard is past its loading and error screens
ProfileLoaded ==
  /\ appServices # << >> /\ appServices[1].userId # Null
  /\ ~loadingProfile /\ authError = Null
  /\ shopProfile # NullProfile

\* the subscription status of the loaded profile is 'active'
SubscriptionActive ==
  /\ shopProfile # NullProfile
  /\ "subscription_status" \in DOMAIN shopProfile
  /\ shopProfile.subscription_status = "active"

\* C13: in every reachable state of a session, a module (Bookings,
\* Invoicing, Quotations, Settings) is rendered only if the subscription
\* status of the session's profile is 'active'; with a loaded profile of any
\* other status, or of none, the subscription gate is rendered.
GateUnlessActive ==
  /\ Screen \in Modules => SubscriptionActive
  /\ (ProfileLoaded /\ ~SubscriptionActive) => Screen = "SubscriptionGate"

\* a profile without subscription_status is loaded and nothing is rendered
StatuslessProfileUnmounts ==
  /\ ProfileLoaded
  /\ shopProfile = StatuslessProfile
  /\ Screen = "nothing"

BootstrapCreatesOrLoads ==
  [][ /\ (bootstrap = "getDoc" /\ bootstrap' # "getDoc") =>
           IF bootstrap' = "failed" THEN profileDoc' = profileDoc
           ELSE IF profileDoc = << >>
                THEN bootstrap' = "setDoc" /\ profileDoc' = profileDoc
                ELSE /\ bootstrap' = "loaded"
                     /\ profileDoc' = profileDoc
                     /\ shopProfile' = profileDoc[1]
                     /\ writeQueue' = writeQueue
                     /\ lastWrite' = NoWrite
      /\ (bootstrap = "setDoc" /\ bootstrap' = "created") =>
           /\ profileDoc = << >>
           /\ profileDoc' # << >>
           /\ profileDoc'[1].subscription_status = "active"
           /\ profileDoc'[1].currency = "ZAR"
           /\ shopProfile' = profileDoc'[1]
           /\ ~loadingProfile'
      /\ bootstrap' = "created" => bootstrap \in {"setDoc", "created"}
    ]_vars

\* the bootstrap has created the profile of a tenant that had none, and the
\* bookings module is shown
BootstrapCreatesOrLoadsWitness ==
  /\ bootstrap = "created"
  /\ lastWrite.op = "setProfile" /\ lastWrite.accepted
  /\ profileDoc = << InitialProfile >>
  /\ shopProfile = InitialProfile
  /\ Screen = "bookings"

\* C20: when the sign-in attempt fails, the session goes on with userId
\* null and the dashboard eventually leaves its 'Loading Shop Profile'
\* screen.
FailedSignInLeavesLoading ==
  (auth = "failed") ~>
     (appServices = << [userId |-> Null] >> /\ Screen # "Loading Shop Profile")

\* the sign-in failed, userId is null, and the loading screen is shown with
\* nothing left to happen
FailedSignInStuck ==
  /\ auth = "failed"
  /\ appServices = << [userId |-> Null] >>
  /\ Screen = "Loading Shop Profile"
  /\ bootstrap = "idle"
  /\ writeQueue = << >>

\* C16: for tenant identifiers u1 # u2 and collection names c1, c2 the
\* locations getTenantPath(u1, c1) and getTenantPath(u2, c2) differ and
\* neither lies under the other; and the location of a tenant's profile
\* document differs from the location of each of the tenant's collections
\* and of every document in them.
TenantPathsDisjoint ==
  (calc.fn = "getTenantPath" /\ calc.result # << >>) =>
    LET r == calc.result[1]
    IN /\ calc.args.u1 # calc.args.u2 =>
            /\ r.p1 # r.p2
            /\ ~Under(r.p1, r.p2) /\ ~Under(r.p2, r.p1)
            /\ r.profile1 # r.profile2
            /\ ~Under(r.profile1, r.p2) /\ ~Under(r.profile2, r.p1)
       /\ r.profile1 # r.p1
       /\ \A id \in DocumentIds : r.profile1 # DocumentPath(r.p1, id)
       /\ calc.args.u1 = calc.args.u2 =>
            /\ r.profile1 # r.p2
            /\ \A id \in DocumentIds : r.profile1 # DocumentPath(r.p2, id)

\* the paths of tenant "a" and of tenant "ab", whose identifier begins
\* with "a", were computed for the same collection
TenantPathsDisjointWitness ==
  /\ calc.fn = "getTenantPath" /\ calc.result # << >>
  /\ calc.args.u1 = << "a" >> /\ calc.args.u2 = << "a", "b" >>
  /\ calc.args.c1 = calc.args.c2
  /\ Len(calc.result[1].p2) = Len(calc.result[1].p1) + 1

\* the box both forms show when a required field is empty
RequiredFieldsBox ==
  ErrorBox("Please fill in required customer name, phone, and device model.")

\* the three required fields of a booking document hold text
AllRequiredGiven(b) ==
  b.customerName # "" /\ b.customerPhone # "" /\ b.deviceModel # ""

\* C17: a submission of the check-in form or of the online form with an
\* empty customer name, phone or device model hands no write to the store,
\* creates no booking, dispatches no status notification and leaves the form
\* open; and every stored booking has the three fields non-empty.
RequiredFieldsEnforced ==
  [][ /\ lastMessage' = RequiredFieldsBox =>
           /\ writeQueue' = writeQueue
           /\ bookings' = bookings
           /\ bookingsList' = bookingsList
           /\ lastNotification' = NoNotification
           /\ isFormOpen /\ isFormOpen'
      /\ \A w \in RangeOf(writeQueue') :
           w.op = "addBooking" => AllRequiredGiven(w.data)
      /\ \A id \in DOMAIN bookings' : AllRequiredGiven(bookings'[id]) ]_vars

\* a form was submitted with a field missing while the store holds a
\* booking and no write is under way, and it is still open
RequiredFieldsEnforcedWitness ==
  /\ lastMessage = RequiredFieldsBox
  /\ isFormOpen
  /\ bookings # << >>
  /\ writeQueue = << >>

\* C19: every write the store rejects is answered, in the step that catches
\* the rejection, by an error message on the screen.
RejectedWriteShowsError ==
  (lastWrite.op # "none" /\ ~lastWrite.accepted) => lastMessage.kind = "error"

\* the store rejected the status update of the update-status tool, the
\* customer was told the new status, and the screen shows no message
RejectedStatusUpdateSilent ==
  /\ lastWrite.op = "updateStatus" /\ lastWrite.caller = "tool"
  /\ ~lastWrite.accepted
  /\ lastMessage = NoBox
  /\ lastNotification # NoNotification

\* C24: in the update-status tool, a status write the store rejects is
\* followed by no status notification for the booking.
ToolNotifiesOnlyOnSuccess ==
  (lastWrite.op = "updateStatus" /\ lastWrite.caller = "tool"
     /\ ~lastWrite.accepted)
    => lastNotification = NoNotification

\* the store rejected the tool's write of a status the booking did not
\* have, and the customer of that booking was sent the status all the same
ToolNotifiedAfterRejection ==
  /\ lastWrite.op = "updateStatus" /\ lastWrite.caller = "tool"
  /\ ~lastWrite.accepted
  /\ lastWrite.was # lastWrite.status
  /\ bookings[lastWrite.id].status = lastWrite.was
  /\ lastNotification =
       sendStatusNotification(bookings[lastWrite.id].customerPhone,
         bookings[lastWrite.id].customerName,
         bookings[lastWrite.id].invoiceNo, lastWrite.status)

\* C25: the status write of invoice generation is applied only to a booking
\* that has a persisted invoice with relatedBookingId equal to its id, and a
\* persisted invoice stays as it is: so in every state a booking set to
\* Collected by invoice generation has such an invoice.
CollectedByGenerationInvoiced ==
  [][ /\ (lastWrite'.op = "updateStatus" /\ lastWrite'.caller = "generate"
            /\ lastWrite'.accepted)
          => \E i \in 1..Len(invoices) :
               invoices[i].relatedBookingId = lastWrite'.id
      /\ \A i \in 1..Len(invoices) :
           i <= Len(invoices') /\ invoices'[i] = invoices[i] ]_vars

\* invoice generation has set a booking to Collected, and its invoice is
\* in the store
CollectedByGenerationInvoicedWitness ==
  /\ lastWrite.op = "updateStatus" /\ lastWrite.caller = "generate"
  /\ lastWrite.accepted
  /\ bookings[lastWrite.id].status = "Collected"
  /\ \E i \in 1..Len(invoices) : invoices[i].relatedBookingId = lastWrite.id

\* C26: when the store rejects the invoice write of invoice generation, the
\* stored bookings (status and repair details) are as before, no
\* notification is dispatched, no status write is issued, the repair form
\* stays open, and the generating flag of the form that issued the write is
\* false again.
RejectedInvoiceLeavesJob ==
  [][ (/\ writeQueue # << >> /\ Head(writeQueue).op = "addInvoice"
       /\ lastWrite'.op = "addInvoice" /\ ~lastWrite'.accepted) =>
        /\ bookings' = bookings
        /\ invoices' = invoices
        /\ lastNotification' = NoNotification
        /\ writeQueue' = Tail(writeQueue)
        /\ currentBooking' = currentBooking
        /\ (Head(writeQueue).mounted /\ ~crashed) =>
             /\ currentBooking' # << >>
             /\ repairData' = repairData
             /\ ~isGeneratingInvoice' ]_vars

\* the invoice write was rejected while the form that issued it is shown:
\* the form is open, not generating, and the booking is as it was
RejectedInvoiceLeavesJobWitness ==
  /\ lastWrite.op = "addInvoice" /\ ~lastWrite.accepted
  /\ FormShown /\ ~isGeneratingInvoice
  /\ currentBooking[1].id = lastWrite.id
  /\ bookings[lastWrite.id].status = "In Progress"
  /\ lastMessage = ErrorBox("Failed to generate invoice.")
  /\ invoices = << >>

\* C27: a repair form opened for a booking stored with empty repair details
\* holds the default repair data: one empty part line, the default labor
\* cost and the booking's status as finalStatus.
NewBookingFormDefaults ==
  (currentBooking # << >> /\ currentBooking[1].repairDetails = EmptyDetails)
    => /\ repairData = DefaultRepairData(currentBooking[1].status)
       /\ ~crashed

\* the repair form was opened for the booking the check-in has just
\* created: its repair data is the stored {} and the render threw
NewBookingFormThrows ==
  /\ currentBooking # << >>
  /\ currentBooking[1].id \in DOMAIN bookings
  /\ bookings[currentBooking[1].id].repairDetails = EmptyDetails
  /\ bookings[currentBooking[1].id].status = "Confirmed"
  /\ repairData = EmptyDetails
  /\ crashed

\* C22: a listener whose view is torn down is unsubscribed.
SubscriptionsReleased ==
  \A listener \in Listeners : ~Registered(listener) => ~Subscribed(listener)

\* a render threw and the tree is unmounted: the listeners of Dashboard and
\* of the modules are released, the auth-state listener is still subscribed
AuthListenerLeaked ==
  /\ crashed
  /\ Subscribed("auth")
  /\ \A listener \in Listeners \ {"auth"} : ~Subscribed(listener)

\* the local copy this session holds of booking id
LocalCopies(id) ==
  { bookingsList[i] : i \in { j \in 1..Len(bookingsList) : bookingsList[j].id = id } }

\* C21: every status update, repair-details save and generation transition
\* that the store applies to a booking, by this session or by another,
\* leaves the booking with the status and the timestamp the write carries,
\* whatever the booking held before and whatever copy of it the writer had.
LastWriteWins ==
  [][ (lastWrite'.op \in {"updateStatus", "updateRepair"}
         /\ lastWrite'.accepted) =>
        /\ bookings'[lastWrite'.id].status = lastWrite'.status
        /\ bookings'[lastWrite'.id].updatedAt = lastWrite'.updatedAt ]_vars

\* the other session moved the booking to Awaiting Parts; this session,
\* whose list still shows In Progress, then had its own write applied: the
\* store accepted it and the booking has the status of this later write
LastWriteWinsWitness ==
  /\ lastWrite.op \in {"updateStatus", "updateRepair"}
  /\ lastWrite.caller # "peer" /\ lastWrite.accepted
  /\ lastWrite.was = "Awaiting Parts"
  /\ lastWrite.status # "Awaiting Parts"
  /\ \E b \in LocalCopies(lastWrite.id) : b.status = "In Progress"
  /\ bookings[lastWrite.id].status = lastWrite.status
  /\ bookings[lastWrite.id].updatedAt = lastWrite.updatedAt

\* C29: once 'Update Repair Details' has closed the repair form it has no
\* write in flight, so no write of it is applied after that: the status
\* write it passes to onUpdate changes nothing another session wrote.
RepairSaveLeavesNoWrite ==
  /\ \A w \in InFlight : w.caller # "onUpdate"
  /\ (lastWrite.caller = "onUpdate" /\ lastWrite.accepted)
       => lastWrite.was = lastWrite.status

\* the repair form was saved and closed; the other session then moved the
\* booking to Awaiting Parts; the status write the save left in flight has
\* now put back the status of the save
RepairSaveOverwroteLater ==
  /\ lastWrite.op = "updateStatus" /\ lastWrite.caller = "onUpdate"
  /\ lastWrite.accepted
  /\ InFlight = {}
  /\ lastWrite.was = "Awaiting Parts"
  /\ lastWrite.status = "In Progress"
  /\ bookings[lastWrite.id].status = "In Progress"

\* the list holds one entry for each stored booking, with its id, status
\* and repair details, and nothing else
ListShowsStore(list) ==
  /\ Len(list) = Cardinality(DOMAIN bookings)
  /\ \A id \in DOMAIN bookings :
       \E i \in 1..Len(list) :
         /\ list[i].id = id
         /\ list[i].status = bookings[id].status
         /\ list[i].repairDetails = bookings[id].repairDetails
         /\ list[i].invoiceNo = bookings[id].invoiceNo

\* C23, as stated: while the bookings view is mounted its list always
\* equals a full snapshot the store emitted, from the mount on; and once
\* the writes have stopped the list equals the stored collection.
ListAlwaysSnapshot ==
  /\ ListShowsStore(bookingsList)
  /\ [][bookingsList' # bookingsList => ListShowsStore(bookingsList')]_vars
  /\ <>[](crashed \/ ListShowsStore(bookingsList))

\* C23, amended: the list is empty from the mount until the first snapshot
\* arrives, whatever the store holds; every later value of it is a full
\* snapshot of the store as it is when the listener runs; and once the
\* writes of both sessions have stopped the list equals the stored
\* collection for as long as the view is mounted.
ListSnapshotOnceDelivered ==
  /\ bookingsList = << >>
  /\ [][bookingsList' # bookingsList => ListShowsStore(bookingsList')]_vars
  /\ <>[](crashed \/ ListShowsStore(bookingsList))

\* the other session has written the booking and the list of this session
\* shows the booking as the other session left it
ListSnapshotOnceDeliveredWitness ==
  /\ ~crashed
  /\ \E id \in DOMAIN bookings :
       /\ bookings[id].status = "Awaiting Parts"
       /\ \E b \in LocalCopies(id) : b.status = "Awaiting Parts"
  /\ ListShowsStore(bookingsList)

\* the stored profile has subscription status 'active'
StoredActive(doc) ==
  /\ doc # << >>
  /\ "subscription_status" \in DOMAIN doc[1]
  /\ doc[1].subscription_status = "active"

\* C28: the setDoc of a profile bootstrap, of either session, is applied
\* only while the store holds no profile document.
BootstrapNeverOverwrites ==
  [][ (lastWrite'.op = "setProfile" /\ lastWrite'.accepted)
        => profileDoc = << >> ]_vars

\* this session created the profile and saved the currency USD, which its
\* screen still shows; the bootstrap of the other session, which had read
\* the document as absent, has replaced the document by the default
BootstrapOverwroteProfile ==
  /\ lastWrite.op = "setProfile" /\ lastWrite.caller = "peer"
  /\ bootstrap = "created"
  /\ shopProfile # NullProfile /\ shopProfile.currency = "USD"
  /\ profileDoc = << InitialProfile >>

\* C30: a stored profile with subscription status 'active' has it after
\* every step of either session: bootstrap, settings save, activation.
ActiveStaysActive ==
  [][ StoredActive(profileDoc) => StoredActive(profileDoc') ]_vars

\* the profile was activated by a payment and a settings save was then
\* applied to it: the status is still 'active'
ActiveStaysActiveWitness ==
  /\ StoredActive(profileDoc)
  /\ "plan" \in DOMAIN profileDoc[1]
  /\ profileDoc[1].currency = "USD"
  /\ lastWrite.op = "saveProfile" /\ lastWrite.accepted

=============================================================================
